---- MODULE Spec2Model ----
(***************************************************************************)
(* Model of the email ingestion pipeline of scatter                        *)
(* (backend/fetch_and_store_emails.py): the per-message ingestion loop,    *)
(* the match resolver (find_similar_item), the supersession engine         *)
(* (supersede_item) and save_item, over the tables emails, attachments,    *)
(* items and user_items and the attachment blob store.                     *)
(*                                                                         *)
(* Every storage call, classification call and upload of the code is one   *)
(* step of the model, so the states between two writes are states of the   *)
(* model.  A table is a sequence of rows; a row's id is its position.      *)
(***************************************************************************)
EXTENDS Integers, Sequences, FiniteSets, TLC

(***************************************************************************)
(* Bounds of the model.                                                    *)
(***************************************************************************)
MaxClock == 2
MaxItems == 3
MaxUserRows == 2
MaxRuns == 2

NULL == "NULL"
NoId == 0


Range(s) == {s[i] : i \in 1..Len(s)}

(***************************************************************************)
(* Similarity scorer: text_similarity and difflib.SequenceMatcher.ratio.   *)
(* A text is a sequence of one-character strings; " " is whitespace.       *)
(* A ratio is the pair <<numerator, denominator>>.                         *)
(***************************************************************************)
SIMILARITY_THRESHOLD == <<85, 100>>

RatioGT(r, t) == r[1] * t[2] > t[1] * r[2]

RatioGE(r, t) == r[1] * t[2] >= t[1] * r[2]

\* str.split() followed by " ".join(): leading and trailing whitespace is
\* dropped and every inner whitespace run becomes one space.
RECURSIVE StripLeft(_)
StripLeft(s) == IF s # <<>> /\ Head(s) = " " THEN StripLeft(Tail(s)) ELSE s

RECURSIVE CollapseWs(_)
CollapseWs(s) ==
    IF s = <<>> THEN <<>>
    ELSE IF Head(s) = " "
         THEN LET rest == StripLeft(s)
              IN  IF rest = <<>> THEN <<>> ELSE <<" ">> \o CollapseWs(rest)
         ELSE <<Head(s)>> \o CollapseWs(Tail(s))

normalize_content(s) == CollapseWs(StripLeft(s))

\* SequenceMatcher.find_longest_match on a[alo..ahi-1], b[blo..bhi-1] (no junk):
\* the longest common block; of those the one starting earliest in a, and of
\* those the one starting earliest in b.  <<alo, blo, 0>> when nothing matches.
RECURSIVE match_length(_, _, _, _, _, _)
match_length(a, b, i, j, ahi, bhi) ==
    IF i < ahi /\ j < bhi /\ a[i] = b[j]
    THEN 1 + match_length(a, b, i + 1, j + 1, ahi, bhi)
    ELSE 0

\* The common blocks of a[alo..ahi-1] and b[blo..bhi-1] that cannot be
\* extended to the right: where they start in a and in b, and their length.
match_triples(a, b, alo, ahi, blo, bhi) ==
    {<<p[1], p[2], match_length(a, b, p[1], p[2], ahi, bhi)>> :
        p \in {q \in (alo..(ahi - 1)) \X (blo..(bhi - 1)) : a[q[1]] = b[q[2]]}}

find_longest_match(a, b, alo, ahi, blo, bhi) ==
    IF match_triples(a, b, alo, ahi, blo, bhi) = {} THEN <<alo, blo, 0>>
    ELSE CHOOSE c \in match_triples(a, b, alo, ahi, blo, bhi) :
            \A d \in match_triples(a, b, alo, ahi, blo, bhi) :
               \/ d[3] < c[3]
               \/ d[3] = c[3] /\ c[1] < d[1]
               \/ d[3] = c[3] /\ c[1] = d[1] /\ c[2] <= d[2]

\* SequenceMatcher.get_matching_blocks: total size of the matching blocks,
\* found by recursing to the left and to the right of each longest match.
RECURSIVE matching_size(_, _, _, _, _, _)
matching_size(a, b, alo, ahi, blo, bhi) ==
    LET m == find_longest_match(a, b, alo, ahi, blo, bhi)
        i == m[1]
        j == m[2]
        k == m[3]
    IN  IF k = 0 THEN 0
        ELSE k + (IF alo < i /\ blo < j
                  THEN matching_size(a, b, alo, i, blo, j) ELSE 0)
               + (IF i + k < ahi /\ j + k < bhi
                  THEN matching_size(a, b, i + k, ahi, j + k, bhi) ELSE 0)

\* SequenceMatcher.ratio: 2.0 * matches / (len(a) + len(b)), 1.0 when both empty.
ratio(a, b) ==
    IF Len(a) + Len(b) = 0 THEN <<1, 1>>
    ELSE <<2 * matching_size(a, b, 1, Len(a) + 1, 1, Len(b) + 1), Len(a) + Len(b)>>

text_similarity(a, b) ==
    IF a = <<>> \/ b = <<>> THEN <<0, 1>>
    ELSE ratio(normalize_content(a), normalize_content(b))


(***************************************************************************)
(* The collaborators' data: the mailbox, and what the classification call  *)
(* may answer.                                                             *)
(***************************************************************************)
Runs == {1, 2}
Users == {"u1", "u2"}
StatusValues == {[status |-> "read", remind_at |-> NULL],
                 [status |-> "reminder", remind_at |-> "t1"]}

\* The messages of the mailbox: arrival time, content and the filenames of the
\* attachment parts in part order (two parts of a message may share a name).
MsgIds == {"m1", "m2"}
Mailbox ==
    [m \in MsgIds |->
        IF m = "m1"
        THEN [time |-> 1, subject |-> "s1", body |-> "b1", attachments |-> <<"f1", "f2">>]
        ELSE [time |-> 2, subject |-> "s2", body |-> "b2", attachments |-> <<"f1", "f1">>]]

\* Items the extraction step may return for a message.
ItemA == [content |-> <<"a", "b", "c">>, date |-> "d1", external_urls |-> {"u1"},
          attachment_filenames |-> <<"f1">>]
ItemB == [content |-> <<"a", "b", "c", "d">>, date |-> "d1", external_urls |-> {},
          attachment_filenames |-> <<>>]
ItemC == [content |-> <<"x", "y">>, date |-> "d1", external_urls |-> {"u1", "u2"},
          attachment_filenames |-> <<"f1", "f2">>]
ItemD == [content |-> <<"a", "b", "c">>, date |-> NULL, external_urls |-> {"u1"},
          attachment_filenames |-> <<>>]
ItemE == [content |-> <<"z">>, date |-> "d1", external_urls |-> {"u2"},
          attachment_filenames |-> <<"f2">>]
ItemPool == {ItemA, ItemB, ItemC, ItemD, ItemE}
ItemLists == {<<>>} \cup {<<x>> : x \in ItemPool} \cup {<<x, y>> : x \in ItemPool, y \in ItemPool}

\* Outcomes of parse_email_with_claude: it raises (call failure or unparseable
\* response), or returns the parsed answer.
\* privacy_check_passed is "true", "false" or NULL (the key is absent).
ClassificationResults ==
    {[kind |-> "error", privacy_check_passed |-> NULL, items |-> <<>>]}
    \cup {[kind |-> "ok", privacy_check_passed |-> p, items |-> <<>>] : p \in {"false", NULL}}
    \cup {[kind |-> "ok", privacy_check_passed |-> "true", items |-> l] : l \in ItemLists}
NoResult == [kind |-> "none", privacy_check_passed |-> NULL, items |-> <<>>]

(***************************************************************************)
(* Storage: the rows the code writes and the queries it makes.             *)
(***************************************************************************)
Ids(table) == 1..Len(table)

\* supabase.table('emails').select('id').eq('gmail_id', ...)
emails_with_gmail_id(tbl, gmail_id) == {e \in Ids(tbl) : tbl[e].gmail_id = gmail_id}

\* The row store_email_in_database inserts: privacy_check_passed is not among
\* the inserted columns and takes the column default.
full_email_row(gmail_id, t) ==
    [gmail_id |-> gmail_id, subject |-> Mailbox[gmail_id].subject,
     body |-> Mailbox[gmail_id].body, privacy_check_passed |-> NULL, created_at |-> t]

\* The row store_failed_email inserts.
failed_email_row_with_body(gmail_id, t) ==
    [gmail_id |-> gmail_id, subject |-> NULL, body |-> Mailbox[gmail_id].body,
     privacy_check_passed |-> "false", created_at |-> t]

failed_email_row(gmail_id, t) ==
    [gmail_id |-> gmail_id, subject |-> NULL, body |-> NULL,
     privacy_check_passed |-> "false", created_at |-> t]

\* The unique constraint of emails on gmail_id.
gmail_id_conflict_never(tbl, gmail_id) == FALSE

gmail_id_conflict(tbl, gmail_id) == emails_with_gmail_id(tbl, gmail_id) # {}

\* store_failed_email: the insert of the minimal row; an insert that raises
\* (the row may already exist) is caught.
store_failed_email_overwriting(tbl, gmail_id, t) ==
    IF gmail_id_conflict(tbl, gmail_id)
    THEN [e \in Ids(tbl) |->
             IF tbl[e].gmail_id = gmail_id THEN failed_email_row(gmail_id, t) ELSE tbl[e]]
    ELSE Append(tbl, failed_email_row(gmail_id, t))

store_failed_email(tbl, gmail_id, t) ==
    IF gmail_id_conflict(tbl, gmail_id) THEN tbl
    ELSE Append(tbl, failed_email_row(gmail_id, t))

\* fetch_and_store_emails: update emails set privacy_check_passed = TRUE where id = email_id.
mark_privacy_passed(tbl, email_id) ==
    [e \in Ids(tbl) |->
        IF e = email_id THEN [tbl[e] EXCEPT !.privacy_check_passed = "true"] ELSE tbl[e]]

\* upload_attachment_to_storage: the path of the blob of a message's attachment.
storage_path(gmail_id, filename) == <<gmail_id, filename>>

\* upload_attachment_to_storage: the upload stores the blob; a blob already at
\* the path makes the upload fail as a duplicate, which is taken for success.
upload_attachment_to_storage_dropped(bucket, gmail_id, filename) == bucket

upload_attachment_to_storage(bucket, gmail_id, filename) ==
    bucket \cup {storage_path(gmail_id, filename)}

\* store_email_in_database: one attachments insert.
insert_attachment_twice(tbl, email_id, gmail_id, filename) ==
    LET row == [email_id |-> email_id, filename |-> filename,
                storage_path |-> storage_path(gmail_id, filename), item_id |-> NoId]
    IN  tbl \o <<row, row>>

insert_attachment(tbl, email_id, gmail_id, filename) ==
    Append(tbl, [email_id |-> email_id, filename |-> filename,
                 storage_path |-> storage_path(gmail_id, filename), item_id |-> NoId])

\* supabase.table('attachments').select('id, filename').eq('email_id', email_id)
RECURSIVE select_attachment_records(_, _, _)
select_attachment_records(tbl, email_id, from) ==
    IF from > Len(tbl) THEN <<>>
    ELSE (IF tbl[from].email_id = email_id
          THEN <<[id |-> from, filename |-> tbl[from].filename]>> ELSE <<>>)
         \o select_attachment_records(tbl, email_id, from + 1)

\* get_most_recent_email_timestamp: created_at of the most recently created
\* row, NoId (None) when the table is empty.
get_most_recent_email_timestamp_oldest(tbl) ==
    IF tbl = <<>> THEN NoId
    ELSE CHOOSE t \in {tbl[e].created_at : e \in Ids(tbl)} :
            \A e \in Ids(tbl) : t <= tbl[e].created_at

get_most_recent_email_timestamp(tbl) ==
    IF tbl = <<>> THEN NoId
    ELSE CHOOSE t \in {tbl[e].created_at : e \in Ids(tbl)} :
            \A e \in Ids(tbl) : tbl[e].created_at <= t

\* get_most_recent_email_timestamp when the query may raise: the exception is
\* caught and the function returns None, as for an empty table.
get_most_recent_email_timestamp_or_fail(tbl, fault) ==
    IF fault THEN [timestamp |-> NoId, raised |-> TRUE]
    ELSE [timestamp |-> get_most_recent_email_timestamp(tbl), raised |-> FALSE]

\* The Gmail query string of fetch_and_store_emails: the sender filter, and
\* ' after:<timestamp>' when the timestamp is truthy.
gmail_query(most_recent_timestamp) ==
    IF most_recent_timestamp # NoId
    THEN [senders |-> "from", bounded |-> TRUE, after |-> most_recent_timestamp]
    ELSE [senders |-> "from", bounded |-> FALSE, after |-> NoId]

\* The mailbox query of fetch_and_store_emails: the messages that have arrived,
\* from the 'after' bound on when there is one, newest first.
RECURSIVE newest_first(_)
newest_first(ms) ==
    IF ms = {} THEN <<>>
    ELSE LET m == CHOOSE x \in ms : \A y \in ms : Mailbox[y].time <= Mailbox[x].time
         IN  <<m>> \o newest_first(ms \ {m})

list_messages(after, t) ==
    newest_first({m \in MsgIds :
                     /\ Mailbox[m].time <= t
                     /\ (after # NoId => Mailbox[m].time >= after)})

(***************************************************************************)
(* Match resolver.                                                         *)
(***************************************************************************)
current_items_and_retired(tbl) == Ids(tbl)

current_items(tbl) == {i \in Ids(tbl) : tbl[i].is_current}

\* The orders in which the query for the current items may return them.
scan_orders_all_rows(tbl) ==
    {s \in [Ids(tbl) -> Ids(tbl)] : \A x, y \in Ids(tbl) : x # y => s[x] # s[y]}

scan_orders(tbl) ==
    LET cur == current_items(tbl)
        n == Cardinality(cur)
    IN  {s \in [1..n -> cur] : \A x, y \in 1..n : x # y => s[x] # s[y]}

\* find_similar_item, over the rows in the order the query returned them.
find_similar_item_any_date(tbl, scan, new_content, new_date, new_urls) ==
    LET hits == SelectSeq(scan, LAMBDA i :
                    \/ new_urls \cap tbl[i].external_urls # {}
                    \/ RatioGE(text_similarity(new_content, tbl[i].content),
                               SIMILARITY_THRESHOLD))
    IN  IF hits = <<>> THEN [id |-> NoId, score |-> <<0, 1>>]
        ELSE [id |-> hits[1],
              score |-> IF new_urls \cap tbl[hits[1]].external_urls # {} THEN <<1, 1>>
                        ELSE text_similarity(new_content, tbl[hits[1]].content)]

find_similar_item_best(tbl, scan, new_content, new_date, new_urls) ==
    LET score(i) == IF new_urls \cap tbl[i].external_urls # {} THEN <<1, 1>>
                    ELSE text_similarity(new_content, tbl[i].content)
        hits == SelectSeq(scan, LAMBDA i :
                    /\ new_date = tbl[i].date
                    /\ RatioGE(score(i), SIMILARITY_THRESHOLD))
    IN  IF hits = <<>> THEN [id |-> NoId, score |-> <<0, 1>>]
        ELSE LET best == CHOOSE n \in 1..Len(hits) :
                            /\ \A k \in 1..Len(hits) : RatioGE(score(hits[n]), score(hits[k]))
                            /\ \A k \in 1..(n - 1) : ~RatioGE(score(hits[k]), score(hits[n]))
             IN  [id |-> hits[best], score |-> score(hits[best])]

RECURSIVE find_similar_item(_, _, _, _, _)
find_similar_item(tbl, scan, new_content, new_date, new_urls) ==
    IF scan = <<>> THEN [id |-> NoId, score |-> <<0, 1>>]
    ELSE LET existing == tbl[Head(scan)]
             shared_urls == new_urls \cap existing.external_urls
             sim == text_similarity(new_content, existing.content)
         IN  IF shared_urls # {} /\ new_date = existing.date
             THEN [id |-> Head(scan), score |-> <<1, 1>>]
             ELSE IF new_date # existing.date
             THEN find_similar_item(tbl, Tail(scan), new_content, new_date, new_urls)
             ELSE IF RatioGE(sim, SIMILARITY_THRESHOLD)
             THEN [id |-> Head(scan), score |-> sim]
             ELSE find_similar_item(tbl, Tail(scan), new_content, new_date, new_urls)

\* The resolver's rule between two rows of items: equal dates, and a shared
\* URL or a similarity at or above the threshold.
items_match(tbl, i, j) ==
    /\ tbl[i].date = tbl[j].date
    /\ \/ tbl[i].external_urls \cap tbl[j].external_urls # {}
       \/ RatioGE(text_similarity(tbl[i].content, tbl[j].content), SIMILARITY_THRESHOLD)

(***************************************************************************)
(* Supersession engine.                                                    *)
(***************************************************************************)
\* supersede_item: update items set is_current, superseded_by where id = old.
supersede_update_pointer_only(tbl, old_item_id, new_item_id) ==
    [i \in Ids(tbl) |->
        IF i = old_item_id THEN [tbl[i] EXCEPT !.superseded_by = new_item_id] ELSE tbl[i]]

supersede_update_skipped(tbl, old_item_id, new_item_id) == tbl

supersede_update(tbl, old_item_id, new_item_id) ==
    [i \in Ids(tbl) |->
        IF i = old_item_id
        THEN [tbl[i] EXCEPT !.is_current = FALSE, !.superseded_by = new_item_id]
        ELSE tbl[i]]

\* supersede_item: select user_id, status, remind_at where item_id = old.
RECURSIVE select_user_items(_, _, _)
select_user_items(tbl, item_id, from) ==
    IF from > Len(tbl) THEN <<>>
    ELSE (IF tbl[from].item_id = item_id THEN <<tbl[from]>> ELSE <<>>)
         \o select_user_items(tbl, item_id, from + 1)

\* The unique constraint of user_items on (user_id, item_id).
user_item_exists(tbl, user_id, item_id) ==
    \E x \in Ids(tbl) : tbl[x].user_id = user_id /\ tbl[x].item_id = item_id

\* supabase.table('user_items').insert(...): the row is added, or the insert
\* fails with a duplicate key (23505) and adds nothing.
insert_user_item_upsert(tbl, row) ==
    IF user_item_exists(tbl, row.user_id, row.item_id)
    THEN [ok |-> TRUE,
          tbl |-> [x \in Ids(tbl) |->
                      IF tbl[x].user_id = row.user_id /\ tbl[x].item_id = row.item_id
                      THEN row ELSE tbl[x]]]
    ELSE [ok |-> TRUE, tbl |-> Append(tbl, row)]

insert_user_item_unchecked(tbl, row) == [ok |-> TRUE, tbl |-> Append(tbl, row)]

insert_user_item(tbl, row) ==
    IF user_item_exists(tbl, row.user_id, row.item_id)
    THEN [ok |-> FALSE, tbl |-> tbl]
    ELSE [ok |-> TRUE, tbl |-> Append(tbl, row)]

\* supersede_item: the insert of one migrated row inside try/except.  Every
\* exception of the insert is handled there (passed over or printed), so the
\* call does not raise.
migrate_insert_uncaught(tbl, user_item, new_item_id) ==
    LET res == insert_user_item(tbl, [user_id |-> user_item.user_id, item_id |-> new_item_id,
                                      status |-> user_item.status,
                                      remind_at |-> user_item.remind_at])
    IN  [tbl |-> res.tbl, raised |-> ~res.ok]

migrate_insert_none(tbl, user_item, new_item_id) == [tbl |-> tbl, raised |-> FALSE]

migrate_insert_moving(tbl, user_item, new_item_id) ==
    [tbl |-> [x \in Ids(tbl) |->
                 IF tbl[x] = user_item THEN [tbl[x] EXCEPT !.item_id = new_item_id] ELSE tbl[x]],
     raised |-> FALSE]

migrate_insert(tbl, user_item, new_item_id) ==
    LET res == insert_user_item(tbl, [user_id |-> user_item.user_id, item_id |-> new_item_id,
                                      status |-> user_item.status,
                                      remind_at |-> user_item.remind_at])
    IN  [tbl |-> res.tbl, raised |-> FALSE]

\* supersede_item: the migration loop over the selected rows; an exception
\* that leaves an iteration ends the loop.
RECURSIVE migrate_all(_, _, _)
migrate_all(tbl, old_user_items, new_item_id) ==
    IF old_user_items = <<>> THEN [tbl |-> tbl, raised |-> FALSE]
    ELSE LET res == migrate_insert(tbl, Head(old_user_items), new_item_id)
         IN  IF res.raised THEN res
             ELSE migrate_all(res.tbl, Tail(old_user_items), new_item_id)

\* The user_items insert when the storage service may fail: with fault the
\* insert raises an error that is not a duplicate key and adds nothing.
insert_user_item_or_fail(tbl, row, fault) ==
    IF fault THEN [ok |-> FALSE, tbl |-> tbl] ELSE insert_user_item(tbl, row)

\* supersede_item: one iteration of the migration loop when the insert may
\* fail.  The except clause handles every exception: a duplicate key is passed
\* over, any other error is printed; the iteration ends normally.
migrate_insert_or_fail_raising(tbl, user_item, new_item_id, fault) ==
    LET res == insert_user_item_or_fail(tbl, [user_id |-> user_item.user_id,
                                              item_id |-> new_item_id,
                                              status |-> user_item.status,
                                              remind_at |-> user_item.remind_at], fault)
    IN  [tbl |-> res.tbl, raised |-> fault]

migrate_insert_or_fail(tbl, user_item, new_item_id, fault) ==
    LET res == insert_user_item_or_fail(tbl, [user_id |-> user_item.user_id,
                                              item_id |-> new_item_id,
                                              status |-> user_item.status,
                                              remind_at |-> user_item.remind_at], fault)
    IN  [tbl |-> res.tbl, raised |-> FALSE]

\* supersede_item: the migration loop when inserts may fail; faults[n] says
\* whether the n-th insert fails.  attempts counts the inserts made.
RECURSIVE migrate_all_or_fail(_, _, _, _, _)
migrate_all_or_fail(tbl, old_user_items, new_item_id, faults, n) ==
    IF n > Len(old_user_items) THEN [tbl |-> tbl, raised |-> FALSE, attempts |-> n - 1]
    ELSE LET res == migrate_insert_or_fail(tbl, old_user_items[n], new_item_id, faults[n])
         IN  IF res.raised THEN [tbl |-> res.tbl, raised |-> TRUE, attempts |-> n]
             ELSE migrate_all_or_fail(res.tbl, old_user_items, new_item_id, faults, n + 1)

\* supersede_item as one call.
supersede_item(itbl, utbl, old_item_id, new_item_id) ==
    LET migrated == migrate_all(utbl, select_user_items(utbl, old_item_id, 1), new_item_id)
    IN  [items |-> supersede_update(itbl, old_item_id, new_item_id),
         user_items |-> migrated.tbl,
         raised |-> migrated.raised]

\* save_item: the insert of the extracted item, always with is_current = TRUE.
save_item_insert_unless_similar(tbl, email_id, item, similar_id) ==
    IF similar_id # NoId THEN tbl
    ELSE Append(tbl, [email_id |-> email_id, content |-> item.content, date |-> item.date,
                      external_urls |-> item.external_urls, is_current |-> TRUE,
                      superseded_by |-> NoId])

save_item_insert_retired(tbl, email_id, item, similar_id) ==
    Append(tbl, [email_id |-> email_id, content |-> item.content, date |-> item.date,
                 external_urls |-> item.external_urls, is_current |-> FALSE,
                 superseded_by |-> NoId])

save_item_insert(tbl, email_id, item, similar_id) ==
    Append(tbl, [email_id |-> email_id, content |-> item.content, date |-> item.date,
                 external_urls |-> item.external_urls, is_current |-> TRUE,
                 superseded_by |-> NoId])

\* save_item as one call: the resolver, the insert and, when the resolver
\* found an item, supersede_item.
save_item(itbl, utbl, scan, email_id, item) ==
    LET found == find_similar_item(itbl, scan, item.content, item.date, item.external_urls)
        inserted == save_item_insert(itbl, email_id, item, found.id)
        new_item_id == Len(itbl) + 1
    IN  IF found.id # NoId
        THEN supersede_item(inserted, utbl, found.id, new_item_id)
        ELSE [items |-> inserted, user_items |-> utbl, raised |-> FALSE]

\* link_attachments_to_item: the update of one attachment record.
link_attachment_by_filename(tbl, id, item_id) ==
    [x \in Ids(tbl) |->
        IF tbl[x].filename = tbl[id].filename THEN [tbl[x] EXCEPT !.item_id = item_id]
        ELSE tbl[x]]

link_attachment(tbl, id, item_id) ==
    [x \in Ids(tbl) |-> IF x = id THEN [tbl[x] EXCEPT !.item_id = item_id] ELSE tbl[x]]

(***************************************************************************)
(* Batch dedup: temp/dedup_existing_items.py and the dedup step of         *)
(* temp/backfill_urls_and_dedup.py.  Items are created one after another,  *)
(* so the order by created_at is the order of the ids.                     *)
(***************************************************************************)
Reverse(s) == [n \in 1..Len(s) |-> s[Len(s) + 1 - n]]

\* select ... eq('is_current', True).order('created_at', desc=False)
RECURSIVE fetch_current_items(_, _)
fetch_current_items(tbl, from) ==
    IF from > Len(tbl) THEN <<>>
    ELSE (IF tbl[from].is_current THEN <<from>> ELSE <<>>)
         \o fetch_current_items(tbl, from + 1)

\* similarity of the two scripts, on contents that are already normalized.
similarity(a, b) == IF a = <<>> \/ b = <<>> THEN <<0, 1>> ELSE ratio(a, b)

\* find_duplicates: the groups of items with equal dates and similar contents;
\* its is the list of item ids, i the position of item_a.
RECURSIVE find_duplicates_regrouping(_, _, _, _)
find_duplicates_regrouping(tbl, its, i, processed) ==
    IF i > Len(its) THEN <<>>
    ELSE LET item_a == its[i]
             content_a == normalize_content(tbl[item_a].content)
             group == SelectSeq(SubSeq(its, i + 1, Len(its)),
                                LAMBDA item_b :
                                   /\ tbl[item_b].date = tbl[item_a].date
                                   /\ RatioGE(similarity(content_a,
                                                 normalize_content(tbl[item_b].content)),
                                              SIMILARITY_THRESHOLD))
         IN  IF group = <<>> THEN find_duplicates_regrouping(tbl, its, i + 1, processed)
             ELSE <<(<<item_a>> \o group)>>
                  \o find_duplicates_regrouping(tbl, its, i + 1, processed)

RECURSIVE find_duplicates(_, _, _, _)
find_duplicates(tbl, its, i, processed) ==
    IF i > Len(its) THEN <<>>
    ELSE IF its[i] \in processed THEN find_duplicates(tbl, its, i + 1, processed)
    ELSE LET item_a == its[i]
             content_a == normalize_content(tbl[item_a].content)
             group == SelectSeq(SubSeq(its, i + 1, Len(its)),
                                LAMBDA item_b :
                                   /\ item_b \notin processed
                                   /\ tbl[item_b].date = tbl[item_a].date
                                   /\ RatioGE(similarity(content_a,
                                                 normalize_content(tbl[item_b].content)),
                                              SIMILARITY_THRESHOLD))
         IN  IF group = <<>> THEN find_duplicates(tbl, its, i + 1, processed)
             ELSE <<(<<item_a>> \o group)>>
                  \o find_duplicates(tbl, its, i + 1,
                                     processed \cup Range(group) \cup {item_a})

\* group.sort(key=created_at, reverse=True): newest = group[0], older_items = group[1:].
newest(group) == Reverse(group)[1]

older_items_with_newest(group) == Reverse(group)

older_items(group) == Tail(Reverse(group))

\* for old_item in older_items: supersede_item(old_item, newest)
RECURSIVE supersede_older_items(_, _, _, _)
supersede_older_items(itbl, utbl, older, new_item_id) ==
    IF older = <<>> THEN [items |-> itbl, user_items |-> utbl]
    ELSE LET res == supersede_item(itbl, utbl, Head(older), new_item_id)
         IN  supersede_older_items(res.items, res.user_items, Tail(older), new_item_id)

\* for group in duplicate_groups: ...
RECURSIVE process_groups(_, _, _)
process_groups(itbl, utbl, duplicate_groups) ==
    IF duplicate_groups = <<>> THEN [items |-> itbl, user_items |-> utbl]
    ELSE LET group == Head(duplicate_groups)
             res == supersede_older_items(itbl, utbl, older_items(group), newest(group))
         IN  process_groups(res.items, res.user_items, Tail(duplicate_groups))

\* dedup_existing_items.py main: duplicate_groups.
dedup_existing_groups(itbl) ==
    find_duplicates(itbl, fetch_current_items(itbl, 1), 1, {})

\* dedup_existing_items.py main.
dedup_existing_items(itbl, utbl) ==
    process_groups(itbl, utbl, find_duplicates(itbl, fetch_current_items(itbl, 1), 1, {}))

\* The values of a sequence in the order of their first occurrence (the keys
\* of a dict filled in that order).
RECURSIVE first_occurrences(_)
first_occurrences(s) ==
    IF s = <<>> THEN <<>>
    ELSE LET front == first_occurrences(SubSeq(s, 1, Len(s) - 1))
         IN  IF s[Len(s)] \in Range(front) THEN front ELSE Append(front, s[Len(s)])

\* backfill_urls_and_dedup.py: by_date of one url, the groups of more than one
\* item in the order of the dates.
RECURSIVE by_date_groups(_, _, _)
by_date_groups(tbl, candidates, dates) ==
    IF dates = <<>> THEN <<>>
    ELSE LET group == SelectSeq(candidates, LAMBDA x : tbl[x].date = Head(dates))
         IN  (IF Len(group) > 1 THEN <<group>> ELSE <<>>)
             \o by_date_groups(tbl, candidates, Tail(dates))

\* backfill_urls_and_dedup.py: the groups by shared URL and equal date; urls is
\* the order of the keys of url_to_items.
RECURSIVE url_groups(_, _, _, _)
url_groups(tbl, its, urls, processed) ==
    IF urls = <<>> THEN [groups |-> <<>>, processed |-> processed]
    ELSE LET url_items == SelectSeq(its, LAMBDA x : Head(urls) \in tbl[x].external_urls)
             candidates == SelectSeq(url_items, LAMBDA x : x \notin processed)
             dates == first_occurrences([n \in 1..Len(candidates) |-> tbl[candidates[n]].date])
             groups == IF Len(url_items) < 2 THEN <<>>
                       ELSE by_date_groups(tbl, candidates, dates)
             grouped == UNION {Range(groups[g]) : g \in 1..Len(groups)}
             rest == url_groups(tbl, its, Tail(urls), processed \cup grouped)
         IN  [groups |-> groups \o rest.groups, processed |-> rest.processed]

\* The orders in which url_to_items may hold the URLs of the current items.
url_orders(tbl) ==
    LET urls == UNION {tbl[i].external_urls : i \in current_items(tbl)}
        n == Cardinality(urls)
    IN  {s \in [1..n -> urls] : \A x, y \in 1..n : x # y => s[x] # s[y]}

\* backfill_urls_and_dedup.py main, step 2: duplicate_groups.
backfill_groups(itbl, urls) ==
    LET its == fetch_current_items(itbl, 1)
        by_url == url_groups(itbl, its, urls, {})
    IN  by_url.groups
        \o find_duplicates(itbl, SelectSeq(its, LAMBDA x : x \notin by_url.processed), 1,
                           by_url.processed)

\* backfill_urls_and_dedup.py main, step 2: the URL groups, then the text
\* groups of the items not yet grouped, then the supersessions.
backfill_urls_and_dedup(itbl, utbl, urls) ==
    LET its == fetch_current_items(itbl, 1)
        by_url == url_groups(itbl, its, urls, {})
        remaining == SelectSeq(its, LAMBDA x : x \notin by_url.processed)
        by_text == find_duplicates(itbl, remaining, 1, by_url.processed)
    IN  process_groups(itbl, utbl, by_url.groups \o by_text)

(***************************************************************************)
(* State.                                                                  *)
(***************************************************************************)
VARIABLES
    emails,       \* table emails: rows [gmail_id, subject, body, privacy_check_passed, created_at]
    attachments,  \* table attachments: rows [email_id, filename, storage_path, item_id]
    items,        \* table items: rows [email_id, content, date, external_urls, is_current, superseded_by]
    user_items,   \* table user_items: rows [user_id, item_id, status, remind_at]
    blobs,        \* storage bucket: the set of stored paths
    now,          \* wall clock
    run,          \* per ingestion run: program position and locals
    runs_started, \* number of runs started so far
    hist          \* what the supersede_item driver has called

vars == <<emails, attachments, items, user_items, blobs, now, run, runs_started, hist>>
tables == <<emails, attachments, items, user_items, blobs>>

IdleRun == [pc |-> "idle", messages |-> <<>>, outcomes |-> <<>>, idx |-> 0, result |-> NoResult,
            k |-> 0, email_id |-> NoId, attachment_records |-> <<>>, j |-> 0,
            similar_id |-> NoId, new_item_id |-> NoId,
            old_user_items |-> <<>>, u |-> 0, a |-> 0]

NoTables == [items |-> <<>>, user_items |-> <<>>]
NoItem == [content |-> <<>>, date |-> NULL, external_urls |-> {}, attachment_filenames |-> <<>>]
NoMatch == [id |-> NoId, score |-> <<0, 1>>]
NoHist == [calls |-> 0, old |-> NoId, new |-> NoId, raised |-> FALSE,
           before |-> NoTables, after |-> NoTables, faults |-> <<>>, attempts |-> 0,
           candidate |-> NoItem, scan |-> <<>>, found |-> NoMatch,
           timestamp |-> NoId, query |-> [senders |-> "from", bounded |-> FALSE, after |-> NoId],
           script |-> NULL, gmail_id |-> NULL, bucket |-> {},
           texts |-> <<>>, scores |-> <<>>, groups |-> <<>>]

Init ==
    /\ emails = <<>>
    /\ attachments = <<>>
    /\ items = <<>>
    /\ user_items = <<>>
    /\ blobs = {}
    /\ now = 1
    /\ run = [r \in Runs |-> IdleRun]
    /\ runs_started = 0
    /\ hist = NoHist



(***************************************************************************)
(* fetch_and_store_emails, one step per external call.                     *)
(***************************************************************************)
CurMsg(rr) == rr.messages[rr.idx]

\* The end of the loop body ('continue'): on to the next message, or return.
\* outcomes records how the run left each message.
NextMessage_returning(rr, outcome) ==
    [IdleRun EXCEPT !.messages = rr.messages, !.outcomes = Append(rr.outcomes, outcome)]

NextMessage(rr, outcome) ==
    IF rr.idx + 1 <= Len(rr.messages)
    THEN [IdleRun EXCEPT !.pc = "check", !.messages = rr.messages,
                         !.outcomes = Append(rr.outcomes, outcome), !.idx = rr.idx + 1]
    ELSE [IdleRun EXCEPT !.messages = rr.messages,
                         !.outcomes = Append(rr.outcomes, outcome)]

\* An exception leaves fetch_and_store_emails and is caught in main: the run ends.
RunRaised(rr) ==
    [IdleRun EXCEPT !.messages = rr.messages, !.outcomes = rr.outcomes]

\* The check for an Email row of the message: it exists, the message is skipped.
already_stored_never(tbl, gmail_id) == FALSE

already_stored(tbl, gmail_id) == emails_with_gmail_id(tbl, gmail_id) # {}

\* The handlers of an exception of parse_email_with_claude: 'continue'.
on_classification_error_raise(rr) == RunRaised(rr)

on_classification_error(rr) == NextMessage(rr, "classification_aborted")

\* not result.get('privacy_check_passed')
privacy_failed(result) == result.privacy_check_passed # "true"

\* The end of one iteration of the item loop.
NextItem(rr) ==
    IF rr.j + 1 <= Len(rr.result.items)
    THEN [rr EXCEPT !.pc = "find_similar", !.j = rr.j + 1, !.similar_id = NoId,
                    !.new_item_id = NoId, !.old_user_items = <<>>, !.u = 0, !.a = 0]
    ELSE NextMessage(rr, "items_extracted")

\* The checkpoint is read and the mailbox is queried.
StartRun(r) ==
    /\ run[r].pc = "idle"
    /\ runs_started < MaxRuns
    /\ LET most_recent_timestamp == get_most_recent_email_timestamp(emails)
           messages == list_messages(most_recent_timestamp, now)
       IN  run' = [run EXCEPT ![r] =
                      IF messages = <<>> THEN IdleRun
                      ELSE [IdleRun EXCEPT !.pc = "check", !.messages = messages, !.idx = 1]]
    /\ runs_started' = runs_started + 1
    /\ UNCHANGED <<tables, now, hist>>

\* The message is fetched and looked up in emails by gmail_id.
CheckExisting(r) ==
    /\ run[r].pc = "check"
    /\ run' = [run EXCEPT ![r] =
                  IF already_stored(emails, CurMsg(run[r]))
                  THEN NextMessage(run[r], "already_stored")
                  ELSE [run[r] EXCEPT !.pc = "classify"]]
    /\ UNCHANGED <<tables, now, runs_started, hist>>

\* parse_email_with_claude returns or raises; results are the answers the
\* classification service may give.
ClassifyFrom(r, results) ==
    /\ run[r].pc = "classify"
    /\ \E result \in results :
          /\ Len(items) + Len(result.items) <= MaxItems
          /\ run' = [run EXCEPT ![r] =
                        IF result.kind = "error" THEN on_classification_error(run[r])
                        ELSE IF privacy_failed(result)
                        THEN [run[r] EXCEPT !.pc = "store_failed", !.result = result]
                        ELSE IF Mailbox[CurMsg(run[r])].attachments # <<>>
                        THEN [run[r] EXCEPT !.pc = "upload", !.result = result, !.k = 1]
                        ELSE [run[r] EXCEPT !.pc = "store_email", !.result = result]]
    /\ UNCHANGED <<tables, now, runs_started, hist>>

Classify(r) == ClassifyFrom(r, ClassificationResults)

StoreFailed(r) ==
    /\ run[r].pc = "store_failed"
    /\ emails' = store_failed_email(emails, CurMsg(run[r]), now)
    /\ run' = [run EXCEPT ![r] = NextMessage(run[r], "privacy_failed")]
    /\ UNCHANGED <<attachments, items, user_items, blobs, now, runs_started, hist>>

\* One upload_attachment_to_storage call of the upload loop.
Upload(r) ==
    /\ run[r].pc = "upload"
    /\ LET m == CurMsg(run[r])
           atts == Mailbox[m].attachments
       IN  /\ blobs' = upload_attachment_to_storage(blobs, m, atts[run[r].k])
           /\ run' = [run EXCEPT ![r] =
                         IF run[r].k < Len(atts)
                         THEN [run[r] EXCEPT !.k = run[r].k + 1]
                         ELSE [run[r] EXCEPT !.pc = "store_email", !.k = 0]]
    /\ UNCHANGED <<emails, attachments, items, user_items, now, runs_started, hist>>

\* store_email_in_database: the emails insert.  A duplicate key raises out of
\* fetch_and_store_emails and ends the run.
StoreEmail(r) ==
    /\ run[r].pc = "store_email"
    /\ LET m == CurMsg(run[r])
       IN  IF gmail_id_conflict(emails, m)
           THEN /\ run' = [run EXCEPT ![r] = RunRaised(run[r])]
                /\ UNCHANGED emails
           ELSE /\ emails' = Append(emails, full_email_row(m, now))
                /\ run' = [run EXCEPT ![r] =
                              IF Mailbox[m].attachments # <<>>
                              THEN [run[r] EXCEPT !.pc = "store_attachment",
                                                  !.email_id = Len(emails) + 1, !.k = 1]
                              ELSE [run[r] EXCEPT !.pc = "mark_passed",
                                                  !.email_id = Len(emails) + 1]]
    /\ UNCHANGED <<attachments, items, user_items, blobs, now, runs_started, hist>>

\* store_email_in_database: one attachments insert of the loop.
StoreAttachment(r) ==
    /\ run[r].pc = "store_attachment"
    /\ LET m == CurMsg(run[r])
           atts == Mailbox[m].attachments
       IN  /\ attachments' = insert_attachment(attachments, run[r].email_id, m, atts[run[r].k])
           /\ run' = [run EXCEPT ![r] =
                         IF run[r].k < Len(atts)
                         THEN [run[r] EXCEPT !.k = run[r].k + 1]
                         ELSE [run[r] EXCEPT !.pc = "mark_passed", !.k = 0]]
    /\ UNCHANGED <<emails, items, user_items, blobs, now, runs_started, hist>>

\* The update that marks the privacy check as passed, and the query for the
\* attachment records of the email.
MarkPassed(r) ==
    /\ run[r].pc = "mark_passed"
    /\ emails' = mark_privacy_passed(emails, run[r].email_id)
    /\ run' = [run EXCEPT ![r] =
                  IF run[r].result.items = <<>> THEN NextMessage(run[r], "items_extracted")
                  ELSE [run[r] EXCEPT
                          !.pc = "find_similar", !.j = 1,
                          !.attachment_records =
                              select_attachment_records(attachments, run[r].email_id, 1)]]
    /\ UNCHANGED <<attachments, items, user_items, blobs, now, runs_started, hist>>

\* save_item: find_similar_item on the current items.
FindSimilar(r) ==
    /\ run[r].pc = "find_similar"
    /\ \E scan \in scan_orders(items) :
          LET item == run[r].result.items[run[r].j]
              found == find_similar_item(items, scan, item.content, item.date,
                                         item.external_urls)
          IN  run' = [run EXCEPT ![r] =
                         [run[r] EXCEPT !.pc = "insert_item", !.similar_id = found.id]]
    /\ UNCHANGED <<tables, now, runs_started, hist>>

\* save_item: the items insert.
InsertItem(r) ==
    /\ run[r].pc = "insert_item"
    /\ items' = save_item_insert(items, run[r].email_id, run[r].result.items[run[r].j],
                                 run[r].similar_id)
    /\ run' = [run EXCEPT ![r] =
                  [run[r] EXCEPT !.new_item_id = Len(items) + 1,
                                 !.pc = IF run[r].similar_id # NoId
                                        THEN "supersede_update" ELSE "link",
                                 !.a = IF run[r].similar_id # NoId THEN 0 ELSE 1]]
    /\ UNCHANGED <<emails, attachments, user_items, blobs, now, runs_started, hist>>

\* supersede_item: the update of the old item.
SupersedeUpdateRelinking(r) ==
    /\ run[r].pc = "supersede_update"
    /\ items' = supersede_update(items, run[r].similar_id, run[r].new_item_id)
    /\ attachments' = [a \in Ids(attachments) |->
                          IF attachments[a].item_id = run[r].similar_id
                          THEN [attachments[a] EXCEPT !.item_id = run[r].new_item_id]
                          ELSE attachments[a]]
    /\ run' = [run EXCEPT ![r] = [run[r] EXCEPT !.pc = "supersede_select"]]
    /\ UNCHANGED <<emails, user_items, blobs, now, runs_started, hist>>

SupersedeUpdate(r) ==
    /\ run[r].pc = "supersede_update"
    /\ items' = supersede_update(items, run[r].similar_id, run[r].new_item_id)
    /\ run' = [run EXCEPT ![r] = [run[r] EXCEPT !.pc = "supersede_select"]]
    /\ UNCHANGED <<emails, attachments, user_items, blobs, now, runs_started, hist>>

\* supersede_item: the query for the old item's user_items rows.
SupersedeSelect(r) ==
    /\ run[r].pc = "supersede_select"
    /\ LET rows == select_user_items(user_items, run[r].similar_id, 1)
       IN  run' = [run EXCEPT ![r] =
                      IF rows = <<>>
                      THEN [run[r] EXCEPT !.pc = "link", !.a = 1]
                      ELSE [run[r] EXCEPT !.pc = "migrate", !.old_user_items = rows, !.u = 1]]
    /\ UNCHANGED <<tables, now, runs_started, hist>>

\* supersede_item: one insert of the migration loop.
Migrate(r) ==
    /\ run[r].pc = "migrate"
    /\ LET res == migrate_insert(user_items, run[r].old_user_items[run[r].u],
                                 run[r].new_item_id)
       IN  /\ user_items' = res.tbl
           /\ run' = [run EXCEPT ![r] =
                         IF res.raised THEN RunRaised(run[r])
                         ELSE IF run[r].u < Len(run[r].old_user_items)
                         THEN [run[r] EXCEPT !.u = run[r].u + 1]
                         ELSE [run[r] EXCEPT !.pc = "link", !.a = 1]]
    /\ UNCHANGED <<emails, attachments, items, blobs, now, runs_started, hist>>

\* save_item has returned: link_attachments_to_item, one attachment record per
\* step, then the next item.
Link(r) ==
    /\ run[r].pc = "link"
    /\ LET attachment_filenames == run[r].result.items[run[r].j].attachment_filenames
           records == run[r].attachment_records
       IN  IF attachment_filenames = <<>> \/ run[r].a > Len(records)
           THEN /\ run' = [run EXCEPT ![r] = NextItem(run[r])]
                /\ UNCHANGED attachments
           ELSE /\ attachments' =
                      IF records[run[r].a].filename \in Range(attachment_filenames)
                      THEN link_attachment(attachments, records[run[r].a].id,
                                           run[r].new_item_id)
                      ELSE attachments
                /\ run' = [run EXCEPT ![r] = [run[r] EXCEPT !.a = run[r].a + 1]]
    /\ UNCHANGED <<emails, items, user_items, blobs, now, runs_started, hist>>

(***************************************************************************)
(* The environment: users of the application and the clock.                *)
(***************************************************************************)
\* A user gives a status to a current item for the first time.
UserSetStatus ==
    /\ Len(user_items) < MaxUserRows
    /\ \E user \in Users, i \in current_items(items), sv \in StatusValues :
          LET res == insert_user_item(user_items, [user_id |-> user, item_id |-> i,
                                                   status |-> sv.status,
                                                   remind_at |-> sv.remind_at])
          IN  /\ res.ok
              /\ user_items' = res.tbl
    /\ UNCHANGED <<emails, attachments, items, blobs, now, run, runs_started, hist>>

Tick ==
    /\ now < MaxClock
    /\ now' = now + 1
    /\ UNCHANGED <<tables, run, runs_started, hist>>

(***************************************************************************)
(* Sequential ingestion runs: one run at a time.                           *)
(***************************************************************************)
Next ==
    \/ StartRun(1)
    \/ CheckExisting(1)
    \/ Classify(1)
    \/ StoreFailed(1)
    \/ Upload(1)
    \/ StoreEmail(1)
    \/ StoreAttachment(1)
    \/ MarkPassed(1)
    \/ FindSimilar(1)
    \/ InsertItem(1)
    \/ SupersedeUpdate(1)
    \/ SupersedeSelect(1)
    \/ Migrate(1)
    \/ Link(1)
    \/ UserSetStatus
    \/ Tick

Spec == Init /\ [][Next]_vars


(***************************************************************************)
(* An ingestion run that is interrupted: the process is stopped after the  *)
(* Email row of a message is inserted and before the item loop of the      *)
(* message ends.  What is stored stays; later runs start from the tables.  *)
(* No user gives a status to an item meanwhile, so supersede_item finds no  *)
(* user_items row to migrate.                                              *)
(***************************************************************************)
\* The steps of fetch_and_store_emails.
IngestionStep ==
    \/ StartRun(1)
    \/ CheckExisting(1)
    \/ Classify(1)
    \/ StoreFailed(1)
    \/ Upload(1)
    \/ StoreEmail(1)
    \/ StoreAttachment(1)
    \/ MarkPassed(1)
    \/ FindSimilar(1)
    \/ InsertItem(1)
    \/ SupersedeUpdate(1)
    \/ SupersedeSelect(1)
    \/ Link(1)

\* The process stops; hist keeps the message, its Email row and the items the
\* classification returned for it.
Interrupt(r) ==
    /\ hist.calls = 0
    /\ run[r].pc \in {"store_attachment", "mark_passed", "find_similar", "insert_item",
                      "supersede_update", "supersede_select", "link"}
    /\ run' = [run EXCEPT ![r] = RunRaised(run[r])]
    /\ hist' = [NoHist EXCEPT !.calls = 1, !.gmail_id = CurMsg(run[r]),
                              !.new = run[r].email_id, !.texts = run[r].result.items]
    /\ UNCHANGED <<tables, now, runs_started>>

NextInterrupt ==
    \/ IngestionStep
    \/ Interrupt(1)
    \/ Tick

\* A run that is not interrupted goes on (every external call returns), and
\* runs are started again.
SpecInterrupt == Init /\ [][NextInterrupt]_vars /\ WF_vars(IngestionStep)

\* Ingestion runs under the assumption that every external call returns: a
\* step of the run that can be taken is taken.  Users are idle, as above.
NextReturning ==
    \/ IngestionStep
    \/ Tick

SpecReturning == Init /\ [][NextReturning]_vars /\ WF_vars(IngestionStep)

(***************************************************************************)
(* Overlapping ingestion runs: two runs whose steps interleave.            *)
(***************************************************************************)
\* The classification answers of the overlapping runs.
OverlapResults ==
    {c \in ClassificationResults : c.items \in {<<>>, <<ItemA>>}}

NextOverlap ==
    \/ \E r \in Runs :
          \/ StartRun(r)
          \/ CheckExisting(r)
          \/ ClassifyFrom(r, OverlapResults)
          \/ StoreFailed(r)
          \/ Upload(r)
          \/ StoreEmail(r)
          \/ StoreAttachment(r)
          \/ MarkPassed(r)
          \/ FindSimilar(r)
          \/ InsertItem(r)
          \/ SupersedeUpdate(r)
          \/ SupersedeSelect(r)
          \/ Migrate(r)
          \/ Link(r)
    \/ UserSetStatus
    \/ Tick

SpecOverlap == Init /\ [][NextOverlap]_vars


(***************************************************************************)
(* supersede_item on its own: a driver calls it on tables of current items *)
(* and user statuses, and calls it again with the same arguments.          *)
(***************************************************************************)
DriverItems == 3
DriverRows == 3

DriverItemTable ==
    [i \in 1..DriverItems |->
        [email_id |-> 1, content |-> ItemA.content, date |-> ItemA.date,
         external_urls |-> {}, is_current |-> TRUE, superseded_by |-> NoId]]

DriverUserRows ==
    {[user_id |-> u, item_id |-> i, status |-> sv.status, remind_at |-> sv.remind_at] :
        u \in Users, i \in 1..DriverItems, sv \in StatusValues}

\* The user_items tables that respect the unique constraint.
DriverUserTables ==
    UNION {{t \in [1..n -> DriverUserRows] :
               \A x, y \in 1..n :
                  x # y => (t[x].user_id # t[y].user_id \/ t[x].item_id # t[y].item_id)} :
           n \in 0..DriverRows}

InitSupersede ==
    /\ emails = <<>>
    /\ attachments = <<>>
    /\ items = DriverItemTable
    /\ user_items \in DriverUserTables
    /\ blobs = {}
    /\ now = 1
    /\ run = [r \in Runs |-> IdleRun]
    /\ runs_started = 0
    /\ hist = NoHist

SupersedeCall ==
    /\ hist.calls = 0
    /\ \E old_item_id \in Ids(items), new_item_id \in Ids(items) :
          LET res == supersede_item(items, user_items, old_item_id, new_item_id)
          IN  /\ items' = res.items
              /\ user_items' = res.user_items
              /\ hist' = [NoHist EXCEPT
                             !.calls = 1, !.old = old_item_id, !.new = new_item_id,
                             !.raised = res.raised,
                             !.before = [items |-> items, user_items |-> user_items],
                             !.after = [items |-> res.items, user_items |-> res.user_items]]
    /\ UNCHANGED <<emails, attachments, blobs, now, run, runs_started>>

SupersedeAgain ==
    /\ hist.calls = 1
    /\ LET res == supersede_item(items, user_items, hist.old, hist.new)
       IN  /\ items' = res.items
           /\ user_items' = res.user_items
           /\ hist' = [hist EXCEPT !.calls = 2, !.raised = res.raised]
    /\ UNCHANGED <<emails, attachments, blobs, now, run, runs_started>>

NextSupersede == SupersedeCall \/ SupersedeAgain

SpecSupersede == InitSupersede /\ [][NextSupersede]_vars


(***************************************************************************)
(* supersede_item when the user_items inserts may fail for a reason other  *)
(* than a duplicate key.                                                   *)
(***************************************************************************)
SupersedeCallWithFaults ==
    /\ hist.calls = 0
    /\ \E old_item_id \in Ids(items), new_item_id \in Ids(items) :
          LET old_user_items == select_user_items(user_items, old_item_id, 1)
          IN  \E faults \in [1..Len(old_user_items) -> BOOLEAN] :
                 LET res == migrate_all_or_fail(user_items, old_user_items, new_item_id,
                                                faults, 1)
                 IN  /\ items' = supersede_update(items, old_item_id, new_item_id)
                     /\ user_items' = res.tbl
                     /\ hist' = [NoHist EXCEPT
                                    !.calls = 1, !.old = old_item_id, !.new = new_item_id,
                                    !.raised = res.raised,
                                    !.before = [items |-> items, user_items |-> user_items],
                                    !.after = [items |-> items', user_items |-> res.tbl],
                                    !.faults = faults, !.attempts = res.attempts]
    /\ UNCHANGED <<emails, attachments, blobs, now, run, runs_started>>

NextSupersedeFaults == SupersedeCallWithFaults

SpecSupersedeFaults == InitSupersede /\ [][NextSupersedeFaults]_vars


(***************************************************************************)
(* Two overlapping supersede_item calls: each caller runs the steps of     *)
(* supersede_item (update, select, one insert per row) and the steps of    *)
(* the two callers interleave.  Both migrate to the same new item.         *)
(***************************************************************************)
CallSupersede(r) ==
    /\ run[r].pc = "idle"
    /\ \E old_item_id \in Ids(items), new_item_id \in Ids(items) :
          /\ hist.calls > 0 => new_item_id = hist.new
          /\ run' = [run EXCEPT ![r] = [IdleRun EXCEPT !.pc = "supersede_update",
                                                       !.similar_id = old_item_id,
                                                       !.new_item_id = new_item_id]]
          /\ hist' = IF hist.calls = 0
                     THEN [NoHist EXCEPT !.calls = 1, !.old = old_item_id, !.new = new_item_id,
                                         !.before = [items |-> items, user_items |-> user_items]]
                     ELSE [hist EXCEPT !.calls = hist.calls + 1]
    /\ UNCHANGED <<tables, now, runs_started>>

NextSupersedeConcurrent ==
    \E r \in Runs :
       \/ CallSupersede(r)
       \/ SupersedeUpdate(r)
       \/ SupersedeSelect(r)
       \/ Migrate(r)

SpecSupersedeConcurrent == InitSupersede /\ [][NextSupersedeConcurrent]_vars


(***************************************************************************)
(* The operations on items one after another: save_item calls of the       *)
(* ingestion loop and the batch dedup passes, each run to its end before   *)
(* the next begins.                                                        *)
(***************************************************************************)
MaintItems == 4

SaveItem ==
    /\ Len(items) < MaintItems
    /\ \E item \in ItemPool, scan \in scan_orders(items) :
          LET res == save_item(items, user_items, scan, 1, item)
          IN  /\ items' = res.items
              /\ user_items' = res.user_items
    /\ UNCHANGED <<emails, attachments, blobs, now, run, runs_started, hist>>

DedupExistingItems ==
    /\ LET res == dedup_existing_items(items, user_items)
       IN  /\ items' = res.items
           /\ user_items' = res.user_items
    /\ UNCHANGED <<emails, attachments, blobs, now, run, runs_started, hist>>

BackfillUrlsAndDedup ==
    /\ \E urls \in url_orders(items) :
          LET res == backfill_urls_and_dedup(items, user_items, urls)
          IN  /\ items' = res.items
              /\ user_items' = res.user_items
    /\ UNCHANGED <<emails, attachments, blobs, now, run, runs_started, hist>>

NextItems ==
    \/ SaveItem
    \/ DedupExistingItems
    \/ BackfillUrlsAndDedup
    \/ UserSetStatus

SpecItems == Init /\ [][NextItems]_vars


(***************************************************************************)
(* The match resolver on its own: find_similar_item is called with a       *)
(* candidate on a table of items, some of them superseded.                 *)
(***************************************************************************)
ResolverItems == 3

\* Candidates and stored items of the resolver calls: items of ItemPool, two
\* items whose similarity is 34/40, the threshold itself, and an item whose
\* similarity to ItemA is 4/5.
ItemF == [content |-> <<"a", "b", "c", "d", "e", "f", "g", "h", "i", "j", "k", "l", "m", "n",
                        "o", "p", "q", "r", "s", "t">>,
          date |-> "d1", external_urls |-> {}, attachment_filenames |-> <<>>]
ItemG == [content |-> <<"a", "b", "c", "d", "e", "f", "g", "h", "i", "j", "k", "l", "m", "n",
                        "o", "p", "q", "u", "v", "w">>,
          date |-> "d1", external_urls |-> {}, attachment_filenames |-> <<>>]
ItemH == [content |-> <<"a", "b">>, date |-> "d1", external_urls |-> {},
          attachment_filenames |-> <<>>]
ResolverPool == {ItemA, ItemB, ItemC, ItemD, ItemF, ItemG, ItemH}

\* The row of an extracted item as save_item stored it.
ResolverRow(item, current) ==
    [email_id |-> 1, content |-> item.content, date |-> item.date,
     external_urls |-> item.external_urls, is_current |-> current, superseded_by |-> NoId]

\* The items of a table given as rows c with the flags f: an item that is not
\* current was superseded by the first later item that matched it.
ResolverTable(c, f) ==
    LET n == Len(c)
        t == [x \in 1..n |-> ResolverRow(c[x], f[x])]
    IN  [i \in 1..n |->
            IF f[i] THEN t[i]
            ELSE [t[i] EXCEPT !.superseded_by =
                     CHOOSE j \in (i + 1)..n :
                        /\ items_match(t, i, j)
                        /\ \A k \in (i + 1)..(j - 1) : ~items_match(t, i, k)]]

\* The flags under which every superseded item has a later item that matches it.
ResolverFlags(c) ==
    LET n == Len(c)
        t == [x \in 1..n |-> ResolverRow(c[x], TRUE)]
    IN  {f \in [1..n -> BOOLEAN] :
            \A i \in 1..n : ~f[i] => \E j \in (i + 1)..n : items_match(t, i, j)}

ResolverTables ==
    UNION {UNION {{ResolverTable(c, f) : f \in ResolverFlags(c)} : c \in [1..n -> ResolverPool]} :
           n \in 0..ResolverItems}

InitResolver ==
    /\ emails = <<>>
    /\ attachments = <<>>
    /\ items \in ResolverTables
    /\ user_items = <<>>
    /\ blobs = {}
    /\ now = 1
    /\ run = [r \in Runs |-> IdleRun]
    /\ runs_started = 0
    /\ hist = NoHist

ResolveCall ==
    /\ hist.calls = 0
    /\ \E item \in ResolverPool, scan \in scan_orders(items) :
          hist' = [NoHist EXCEPT
                     !.calls = 1, !.candidate = item, !.scan = scan,
                     !.before = [items |-> items, user_items |-> user_items],
                     !.found = find_similar_item(items, scan, item.content, item.date,
                                                 item.external_urls)]
    /\ UNCHANGED <<tables, now, run, runs_started>>

\* save_item with the candidate, the query returning the items in the same order.
SaveItemCall ==
    /\ hist.calls = 1
    /\ LET res == save_item(items, user_items, hist.scan, 1, hist.candidate)
       IN  /\ items' = res.items
           /\ user_items' = res.user_items
           /\ hist' = [hist EXCEPT !.calls = 2,
                                   !.after = [items |-> res.items, user_items |-> res.user_items]]
    /\ UNCHANGED <<emails, attachments, blobs, now, run, runs_started>>

NextResolver == ResolveCall \/ SaveItemCall

SpecResolver == InitResolver /\ [][NextResolver]_vars

(***************************************************************************)
(* Driver for the checkpoint: get_most_recent_email_timestamp and the      *)
(* query built from it, over emails tables as earlier runs may leave them. *)
(***************************************************************************)
CheckpointRows == 2

\* An Email row as a run leaves it: stored and not yet marked, stored and
\* marked as passed, or the minimal row of a privacy failure.
CheckpointRowsAt(t) ==
    UNION {{full_email_row(m, t),
            [full_email_row(m, t) EXCEPT !.privacy_check_passed = "true"],
            failed_email_row(m, t)} : m \in MsgIds}

\* Tables in insertion order: one row per gmail_id, created_at never decreasing.
CheckpointTables(t) ==
    {tbl \in UNION {[1..n -> UNION {CheckpointRowsAt(c) : c \in 1..t}] : n \in 0..CheckpointRows} :
        \A i, j \in Ids(tbl) :
            i < j => /\ tbl[i].gmail_id # tbl[j].gmail_id
                     /\ tbl[i].created_at <= tbl[j].created_at}

InitCheckpoint ==
    /\ now \in 1..MaxClock
    /\ emails \in CheckpointTables(now)
    /\ attachments = <<>>
    /\ items = <<>>
    /\ user_items = <<>>
    /\ blobs = {}
    /\ run = [r \in Runs |-> IdleRun]
    /\ runs_started = 0
    /\ hist = NoHist

\* The first lines of fetch_and_store_emails: the checkpoint is read, the
\* query may raise, and the Gmail query is built.
CheckpointCall ==
    /\ hist.calls = 0
    /\ \E fault \in BOOLEAN :
          LET res == get_most_recent_email_timestamp_or_fail(emails, fault)
          IN  hist' = [hist EXCEPT !.calls = 1, !.raised = res.raised,
                                   !.timestamp = res.timestamp,
                                   !.query = gmail_query(res.timestamp)]
    /\ UNCHANGED <<tables, now, run, runs_started>>

NextCheckpoint == CheckpointCall

SpecCheckpoint == InitCheckpoint /\ [][NextCheckpoint]_vars

(***************************************************************************)
(* Driver for the batch dedup passes.  The scripts run after the migration *)
(* that adds is_current and superseded_by, over items stored before the    *)
(* resolver existed: every row is current and any two rows may match.      *)
(***************************************************************************)
DedupItems == 4
DedupPasses == 2

ItemI == [content |-> <<"a", "b", "c", "d", "e">>, date |-> "d1", external_urls |-> {},
          attachment_filenames |-> <<>>]
DedupPool == {ItemA, ItemB, ItemC, ItemD, ItemE, ItemI}

DedupTables ==
    UNION {{[i \in 1..n |-> ResolverRow(c[i], TRUE)] : c \in [1..n -> DedupPool]} :
           n \in 0..DedupItems}

InitDedup ==
    /\ emails = <<>>
    /\ attachments = <<>>
    /\ items \in DedupTables
    /\ user_items = <<>>
    /\ blobs = {}
    /\ now = 1
    /\ run = [r \in Runs |-> IdleRun]
    /\ runs_started = 0
    /\ hist = NoHist

\* One run of dedup_existing_items.py.
DedupExistingItemsCall ==
    /\ hist.calls < DedupPasses
    /\ hist.script \in {NULL, "dedup_existing_items"}
    /\ LET res == dedup_existing_items(items, user_items)
       IN  /\ items' = res.items
           /\ user_items' = res.user_items
    /\ hist' = [hist EXCEPT !.calls = hist.calls + 1, !.script = "dedup_existing_items",
                            !.before = [NoTables EXCEPT !.items = items,
                                                        !.user_items = user_items],
                            !.groups = dedup_existing_groups(items)]
    /\ UNCHANGED <<emails, attachments, blobs, now, run, runs_started>>

\* One run of step 2 of backfill_urls_and_dedup.py.
BackfillUrlsAndDedupCall ==
    /\ hist.calls < DedupPasses
    /\ hist.script \in {NULL, "backfill_urls_and_dedup"}
    /\ \E urls \in url_orders(items) :
          /\ LET res == backfill_urls_and_dedup(items, user_items, urls)
             IN  /\ items' = res.items
                 /\ user_items' = res.user_items
          /\ hist' = [hist EXCEPT !.calls = hist.calls + 1,
                                  !.script = "backfill_urls_and_dedup",
                                  !.before = [NoTables EXCEPT !.items = items,
                                                              !.user_items = user_items],
                                  !.groups = backfill_groups(items, urls)]
    /\ UNCHANGED <<emails, attachments, blobs, now, run, runs_started>>

NextDedup == DedupExistingItemsCall \/ BackfillUrlsAndDedupCall

SpecDedup == InitDedup /\ [][NextDedup]_vars

(***************************************************************************)
(* Driver for the uploads of one message, in the two scripts that define   *)
(* upload_attachment_to_storage, over buckets as earlier runs may leave    *)
(* them: a blob may exist for a message that has no Email row.             *)
(***************************************************************************)
Scripts == {"backend", "email-parser"}
UploadCalls == 2

\* upload_attachment_to_storage of src/email-parser: every exception of the
\* upload, the duplicate included, is printed and raised again.
parser_upload_attachment_to_storage(bucket, gmail_id, filename) ==
    IF storage_path(gmail_id, filename) \in bucket
    THEN [bucket |-> bucket, raised |-> TRUE]
    ELSE [bucket |-> bucket \cup {storage_path(gmail_id, filename)}, raised |-> FALSE]

upload_in_script(script, bucket, gmail_id, filename) ==
    IF script = "backend"
    THEN [bucket |-> upload_attachment_to_storage(bucket, gmail_id, filename), raised |-> FALSE]
    ELSE parser_upload_attachment_to_storage(bucket, gmail_id, filename)

\* The upload loop over the attachment parts of a message, from part k on; an
\* upload that raises ends it.
RECURSIVE upload_attachments(_, _, _, _, _)
upload_attachments(script, bucket, gmail_id, atts, k) ==
    IF k > Len(atts) THEN [bucket |-> bucket, raised |-> FALSE]
    ELSE LET res == upload_in_script(script, bucket, gmail_id, atts[k])
         IN  IF res.raised THEN res
             ELSE upload_attachments(script, res.bucket, gmail_id, atts, k + 1)

\* store_email_in_database: the attachments inserts, one per uploaded part.
RECURSIVE insert_attachments(_, _, _, _, _)
insert_attachments(tbl, email_id, gmail_id, atts, k) ==
    IF k > Len(atts) THEN tbl
    ELSE insert_attachments(insert_attachment(tbl, email_id, gmail_id, atts[k]),
                            email_id, gmail_id, atts, k + 1)

UploadPaths == UNION {{storage_path(m, f) : f \in Range(Mailbox[m].attachments)} : m \in MsgIds}

InitUpload ==
    /\ now = 1
    /\ blobs \in SUBSET UploadPaths
    /\ emails = <<>>
    /\ attachments = <<>>
    /\ items = <<>>
    /\ user_items = <<>>
    /\ run = [r \in Runs |-> IdleRun]
    /\ runs_started = 0
    /\ hist = NoHist

\* The loop body for one message that has no Email row: the uploads, then
\* store_email_in_database; an exception leaves the loop and the run.
UploadMessage ==
    /\ hist.calls < UploadCalls
    /\ ~hist.raised
    /\ \E script \in Scripts, m \in MsgIds :
          /\ hist.calls > 0 => script = hist.script
          /\ emails_with_gmail_id(emails, m) = {}
          /\ LET res == upload_attachments(script, blobs, m, Mailbox[m].attachments, 1)
             IN  /\ blobs' = res.bucket
                 /\ emails' = IF res.raised THEN emails
                              ELSE Append(emails, full_email_row(m, now))
                 /\ attachments' = IF res.raised THEN attachments
                                   ELSE insert_attachments(attachments, Len(emails) + 1, m,
                                                           Mailbox[m].attachments, 1)
                 /\ hist' = [hist EXCEPT !.calls = hist.calls + 1, !.raised = res.raised,
                                         !.script = script, !.gmail_id = m, !.bucket = blobs]
    /\ UNCHANGED <<items, user_items, now, run, runs_started>>

NextUpload == UploadMessage \/ Tick

SpecUpload == InitUpload /\ [][NextUpload]_vars

(***************************************************************************)
(* backfill_end_dates (src/temp/backfill_end_dates.py).  The items of this *)
(* script are rows [content, date_start, date_end]; a date is the text     *)
(* 'YYYY-MM-DD', a sequence of one-character strings, or None.  The        *)
(* content of an item is what the range patterns find in it: no range, or  *)
(* the month and the day of the end of the range.                          *)
(***************************************************************************)
\* None, where a date is expected (falsy, like the empty text).
NoDate == <<>>

DateChars == <<"-", "0", "1", "2", "3", "4", "5", "6", "7", "8", "9">>

\* ord(c): the characters of a date in code point order ('-' before the digits).
CharCode(c) == CHOOSE n \in 1..Len(DateChars) : DateChars[n] = c

DigitChar(n) == DateChars[n + 2]

DigitValue(c) == CharCode(c) - 2

\* strftime('%Y-%m-%d') and f"{year}-{month}-{end_str.zfill(2)}".
iso_date(y, mo, d) ==
    <<DigitChar(y \div 1000), DigitChar((y \div 100) % 10), DigitChar((y \div 10) % 10),
      DigitChar(y % 10), "-", DigitChar(mo \div 10), DigitChar(mo % 10), "-",
      DigitChar(d \div 10), DigitChar(d % 10)>>

\* int(start_date.split('-')[0])
year_of(date) ==
    DigitValue(date[1]) * 1000 + DigitValue(date[2]) * 100
        + DigitValue(date[3]) * 10 + DigitValue(date[4])

\* Python's < on str: the first differing character decides, a proper prefix
\* is smaller.
RECURSIVE str_less(_, _)
str_less(a, b) ==
    IF b = <<>> THEN FALSE
    ELSE IF a = <<>> THEN TRUE
    ELSE IF Head(a) # Head(b) THEN CharCode(Head(a)) < CharCode(Head(b))
    ELSE str_less(Tail(a), Tail(b))

\* datetime.now().year
CurrentYear == 2025

NoRange == [month |-> 0, day |-> 0]

\* extract_end_date_from_content: None without a range in the content; the end
\* of the range in the year of start_date, or the current year without one.
extract_end_date_from_content(content, start_date) ==
    IF content = NoRange THEN NoDate
    ELSE LET year == IF start_date # NoDate THEN year_of(start_date) ELSE CurrentYear
         IN  iso_date(year, content.month, content.day)

\* backfill_end_dates: the validation 'start_date and end_date < start_date'.
end_before_start_never(end_date, start_date) == FALSE

end_before_start(end_date, start_date) ==
    start_date # NoDate /\ str_less(end_date, start_date)

\* backfill_end_dates: the loop over the items without date_end, from row i on.
RECURSIVE backfill_end_dates(_, _)
backfill_end_dates(tbl, i) ==
    IF i > Len(tbl) THEN tbl
    ELSE IF tbl[i].date_end # NoDate THEN backfill_end_dates(tbl, i + 1)
    ELSE LET end_date == extract_end_date_from_content(tbl[i].content, tbl[i].date_start)
         IN  IF end_date = NoDate \/ end_before_start(end_date, tbl[i].date_start)
             THEN backfill_end_dates(tbl, i + 1)
             ELSE backfill_end_dates([tbl EXCEPT ![i].date_end = end_date], i + 1)

BackfillItems == 2

BackfillDates == {iso_date(2025, 12, 4), iso_date(2025, 12, 28), iso_date(2026, 1, 2)}
BackfillContents == {NoRange, [month |-> 12, day |-> 7], [month |-> 1, day |-> 3],
                     [month |-> 12, day |-> 28]}
BackfillRows ==
    {[content |-> c, date_start |-> ds, date_end |-> de] :
        c \in BackfillContents, ds \in BackfillDates \cup {NoDate},
        de \in {NoDate, iso_date(2025, 12, 30)}}

InitBackfillEndDates ==
    /\ items \in UNION {[1..n -> BackfillRows] : n \in 0..BackfillItems}
    /\ emails = <<>>
    /\ attachments = <<>>
    /\ user_items = <<>>
    /\ blobs = {}
    /\ now = 1
    /\ run = [r \in Runs |-> IdleRun]
    /\ runs_started = 0
    /\ hist = NoHist

\* One run of the script.
BackfillEndDates ==
    /\ hist.calls = 0
    /\ items' = backfill_end_dates(items, 1)
    /\ hist' = [hist EXCEPT !.calls = 1,
                            !.before = [items |-> items, user_items |-> user_items]]
    /\ UNCHANGED <<emails, attachments, user_items, blobs, now, run, runs_started>>

NextBackfillEndDates == BackfillEndDates

SpecBackfillEndDates == InitBackfillEndDates /\ [][NextBackfillEndDates]_vars

(***************************************************************************)
(* Driver for text_similarity: two texts, scored in both orders.           *)
(***************************************************************************)
SimilarityLen == 4

\* The texts 'ababbba' and 'aabbaba'.
TextP == <<"a", "b", "a", "b", "b", "b", "a">>
TextQ == <<"a", "a", "b", "b", "a", "b", "a">>

SimilarityTexts ==
    UNION {[1..n -> {"a", "b", " "}] : n \in 0..SimilarityLen} \cup {TextP, TextQ}

InitSimilarity ==
    /\ emails = <<>>
    /\ attachments = <<>>
    /\ items = <<>>
    /\ user_items = <<>>
    /\ blobs = {}
    /\ now = 1
    /\ run = [r \in Runs |-> IdleRun]
    /\ runs_started = 0
    /\ hist \in {[NoHist EXCEPT !.texts = <<a, b>>] : a \in SimilarityTexts, b \in SimilarityTexts}

\* text_similarity(a, b) and text_similarity(b, a).
CompareTexts ==
    /\ hist.calls = 0
    /\ hist' = [hist EXCEPT !.calls = 1,
                            !.scores = <<text_similarity(hist.texts[1], hist.texts[2]),
                                         text_similarity(hist.texts[2], hist.texts[1])>>]
    /\ UNCHANGED <<tables, now, run, runs_started>>

NextSimilarity == CompareTexts

SpecSimilarity == InitSimilarity /\ [][NextSimilarity]_vars


(***************************************************************************)
(* Properties of the ingestion runs (Spec).                                *)
(***************************************************************************)
AttachmentRows(email_id, filename) ==
    {x \in Ids(attachments) :
        attachments[x].email_id = email_id /\ attachments[x].filename = filename}

AttachmentParts(gmail_id, filename) ==
    {k \in 1..Len(Mailbox[gmail_id].attachments) : Mailbox[gmail_id].attachments[k] = filename}

Filenames == UNION {Range(Mailbox[m].attachments) : m \in MsgIds}

OneEmailRowPerGmailId ==
    \A e1, e2 \in Ids(emails) : emails[e1].gmail_id = emails[e2].gmail_id => e1 = e2

\* C1, as stated: at most one Email row per gmail_id and at most one Attachment
\* row per (email, filename), whatever runs have completed.
C1_AsStated ==
    run[1].pc = "idle" =>
        /\ OneEmailRowPerGmailId
        /\ \A e \in Ids(emails), f \in Filenames :
              Cardinality(AttachmentRows(e, f)) <= 1

\* C1, amended: at most one Email row per gmail_id, and for every email and
\* filename no more Attachment rows than the message has attachment parts of
\* that name (one row per part, never a second row for the same part).
C1_OneRowPerMessageAndPart ==
    /\ OneEmailRowPerGmailId
    /\ \A e \in Ids(emails), f \in Filenames :
          Cardinality(AttachmentRows(e, f))
              <= Cardinality(AttachmentParts(emails[e].gmail_id, f))

\* A second run has fetched a stored message again and has returned.
C1_Witness ==
    /\ runs_started = 2
    /\ run[1].pc = "idle"
    /\ \E i \in 1..Len(run[1].outcomes) :
          /\ run[1].outcomes[i] = "already_stored"
          /\ \E e \in emails_with_gmail_id(emails, run[1].messages[i]) :
                \E x \in Ids(attachments) : attachments[x].email_id = e

\* C2: a message whose classification says privacy_check_passed false or absent
\* leaves only the minimal Email row: no subject, no body, no blob, no
\* Attachment row and no Item row of that message.
C2_PrivacyFailedMinimal ==
    /\ \A e \in Ids(emails) :
          emails[e].privacy_check_passed = "false" =>
             /\ emails[e].subject = NULL
             /\ emails[e].body = NULL
             /\ \A x \in Ids(attachments) : attachments[x].email_id # e
             /\ \A i \in Ids(items) : items[i].email_id # e
             /\ \A f \in Filenames : storage_path(emails[e].gmail_id, f) \notin blobs
    /\ \A i \in 1..Len(run[1].outcomes) :
          run[1].outcomes[i] = "privacy_failed" =>
             \E e \in emails_with_gmail_id(emails, run[1].messages[i]) :
                emails[e].privacy_check_passed = "false"

C2_Witness ==
    \E i \in 1..Len(run[1].outcomes) :
       /\ run[1].outcomes[i] = "privacy_failed"
       /\ \E e \in emails_with_gmail_id(emails, run[1].messages[i]) :
             emails[e].privacy_check_passed = "false"

\* C3: in every state an Email row that holds a body has privacy_check_passed
\* true.
C3_BodyOnlyIfPassed ==
    \A e \in Ids(emails) :
       emails[e].body # NULL => emails[e].privacy_check_passed = "true"

\* C4: a message whose classification call raised has no Email row, no
\* Attachment row, no Item row and no blob, and the run has gone on to the
\* messages after it: a run that has returned has left every message of its
\* batch with an outcome.
C4_ClassificationErrorSkipsMessage ==
    /\ \A i \in 1..Len(run[1].outcomes) :
          run[1].outcomes[i] = "classification_aborted" =>
             /\ emails_with_gmail_id(emails, run[1].messages[i]) = {}
             /\ \A f \in Filenames : storage_path(run[1].messages[i], f) \notin blobs
    /\ run[1].pc = "classify" =>
          /\ emails_with_gmail_id(emails, CurMsg(run[1])) = {}
          /\ \A f \in Filenames : storage_path(CurMsg(run[1]), f) \notin blobs
    /\ \A x \in Ids(attachments) : attachments[x].email_id \in Ids(emails)
    /\ \A i \in Ids(items) : items[i].email_id \in Ids(emails)
    /\ run[1].pc # "idle" => run[1].idx = Len(run[1].outcomes) + 1
    /\ run[1].pc = "idle" => Len(run[1].outcomes) = Len(run[1].messages)

\* The classification of a message raised and the run went on to store the
\* message after it.
C4_Witness ==
    /\ Len(run[1].outcomes) >= 2
    /\ run[1].outcomes[1] = "classification_aborted"
    /\ run[1].outcomes[2] = "items_extracted"

\* C5: when the run reaches a message whose Email row exists, its next step
\* writes nothing and takes it to the next message (or returns): there is no
\* classification call, no upload and no write for that message.
C5_AlreadyStoredIsTerminal ==
    [][(/\ run[1].pc = "check"
        /\ emails_with_gmail_id(emails, CurMsg(run[1])) # {}
        /\ run'[1] # run[1])
       => /\ tables' = tables
          /\ run'[1] = NextMessage(run[1], "already_stored")]_vars

C5_Witness ==
    \E i \in 1..Len(run[1].outcomes) : run[1].outcomes[i] = "already_stored"

\* C6: once the runs have completed, no two current items match each other
\* under the resolver's rule.
C6_OneCurrentPerEvent ==
    run[1].pc = "idle" =>
        \A i, j \in current_items(items) : i # j => ~items_match(items, i, j)

\* C7: when save_item has returned for an item that matched the current item
\* A, the new item B is current, A is not and points to B, and every user with
\* a status row on A has one on B.
C7_SaveItemSupersedes ==
    (run[1].pc = "link" /\ run[1].similar_id # NoId) =>
        LET A == run[1].similar_id
            B == run[1].new_item_id
        IN  /\ B \in Ids(items)
            /\ items[B].is_current
            /\ ~items[A].is_current
            /\ items[A].superseded_by = B
            /\ \A x \in Ids(user_items) :
                  user_items[x].item_id = A =>
                     user_item_exists(user_items, user_items[x].user_id, B)

\* save_item has returned after superseding an item two users had a status on.
C7_Witness ==
    /\ run[1].pc = "link"
    /\ run[1].similar_id # NoId
    /\ \A u \in Users : user_item_exists(user_items, u, run[1].similar_id)

ItemsOfEmail(email_id) == {i \in Ids(items) : items[i].email_id = email_id}

\* C8: save_item inserts one Item row per extracted item, current and with the
\* extracted content, whether or not the resolver found a match.

C8_InsertionUnconditional ==
    /\ run[1].pc \in {"find_similar", "insert_item"} =>
          Cardinality(ItemsOfEmail(run[1].email_id)) = run[1].j - 1
    /\ run[1].pc \in {"supersede_update", "supersede_select", "migrate", "link"} =>
          /\ Cardinality(ItemsOfEmail(run[1].email_id)) = run[1].j
          /\ run[1].new_item_id = Len(items)
          /\ items[run[1].new_item_id].is_current
          /\ items[run[1].new_item_id].email_id = run[1].email_id
          /\ items[run[1].new_item_id].content = run[1].result.items[run[1].j].content

\* The row of an item that matched an existing item has been inserted.
C8_Witness ==
    /\ run[1].pc = "supersede_update"
    /\ run[1].similar_id # NoId
    /\ items[run[1].new_item_id].is_current

(***************************************************************************)
(* Properties of supersede_item (SpecSupersede).                           *)
(***************************************************************************)
\* C9: a second supersede_item(old, new) leaves items and user_items as the
\* first call left them, and raises nothing.
C9_SupersedeIdempotent ==
    hist.calls = 2 =>
        /\ items = hist.after.items
        /\ user_items = hist.after.user_items
        /\ ~hist.raised

\* The second call has run after a first call that migrated a row.
C9_Witness ==
    /\ hist.calls = 2
    /\ hist.old # hist.new
    /\ Len(hist.after.user_items) > Len(hist.before.user_items)

\* C10: a row a user had on the new item before the call keeps its status and
\* remind_at, and stays the user's only row on the new item.
C10_ExistingRowWins ==
    hist.calls >= 1 =>
        \A k \in 1..Len(hist.before.user_items) :
           hist.before.user_items[k].item_id = hist.new =>
              /\ user_items[k] = hist.before.user_items[k]
              /\ \A x \in Ids(user_items) :
                    (/\ user_items[x].user_id = user_items[k].user_id
                     /\ user_items[x].item_id = hist.new) => x = k

\* The call met a user whose rows on the old and the new item differ.
C10_Witness ==
    /\ hist.calls >= 1
    /\ hist.old # hist.new
    /\ \E k, m \in 1..Len(hist.before.user_items) :
          /\ hist.before.user_items[k].item_id = hist.new
          /\ hist.before.user_items[m].item_id = hist.old
          /\ hist.before.user_items[k].user_id = hist.before.user_items[m].user_id
          /\ hist.before.user_items[k].status # hist.before.user_items[m].status

\* C11: supersede_item leaves the user_items rows of the old item as they were:
\* the rows keyed by the old item, with their status and remind_at, are the same
\* after the call as before it.
C11_OldRowsKept ==
    hist.calls >= 1 =>
        select_user_items(user_items, hist.old, 1)
            = select_user_items(hist.before.user_items, hist.old, 1)

\* The call has copied a row of the old item to the new item.
C11_Witness ==
    /\ hist.calls = 1
    /\ hist.old # hist.new
    /\ select_user_items(hist.before.user_items, hist.old, 1) # <<>>
    /\ Len(user_items) > Len(hist.before.user_items)

(***************************************************************************)
(* Properties of supersede_item under insert failures (SpecSupersedeFaults).*)
(***************************************************************************)
\* C12: when the insert of a migrated row fails for a reason other than a
\* duplicate key, supersede_item does not raise and still attempts the insert
\* for every remaining row of the old item: every row whose insert did not
\* fail has its user's row on the new item.
C12_MigrationFailureSkipsOneUser ==
    hist.calls = 1 =>
        LET old_user_items == select_user_items(hist.before.user_items, hist.old, 1)
        IN  /\ ~hist.raised
            /\ hist.attempts = Len(old_user_items)
            /\ \A n \in 1..Len(old_user_items) :
                  ~hist.faults[n] =>
                     user_item_exists(user_items, old_user_items[n].user_id, hist.new)

\* The insert for the first user failed and the row of the second user was
\* migrated.
C12_Witness ==
    /\ hist.calls = 1
    /\ hist.old # hist.new
    /\ Len(hist.faults) = 2
    /\ hist.faults[1]
    /\ ~hist.faults[2]
    /\ Len(user_items) = Len(hist.before.user_items) + 1

C14_OverlapStoresOnce ==
    /\ OneEmailRowPerGmailId
    /\ \A e \in Ids(emails), f \in Filenames :
          Cardinality(AttachmentRows(e, f))
              <= Cardinality(AttachmentParts(emails[e].gmail_id, f))
    /\ \A e \in Ids(emails) :
          \E c \in OverlapResults : Cardinality(ItemsOfEmail(e)) <= Len(c.items)
    /\ \A r1, r2 \in Runs :
          (r1 # r2 /\ run[r1].email_id # NoId) => run[r1].email_id # run[r2].email_id

\* Both runs found the same message not stored; run 2 stored it and is writing
\* its items while run 1 is about to insert its Email row.
C14_Witness ==
    /\ run[1].pc = "store_email"
    /\ run[2].pc = "link"
    /\ CurMsg(run[1]) = CurMsg(run[2])
    /\ emails[run[2].email_id].gmail_id = CurMsg(run[1])
    /\ ItemsOfEmail(run[2].email_id) # {}

\* C15: a duplicate key on the insert of the full Email row (a peer run stored
\* the message first) does not end the run: a run that has returned has left
\* every message of its batch with an outcome.
C15_DuplicateEmailNotFatal ==
    \A r \in Runs :
       run[r].pc = "idle" => Len(run[r].outcomes) = Len(run[r].messages)

(***************************************************************************)
(* Properties of the operations on items (SpecItems).                      *)
(***************************************************************************)
\* C16: between operations, an item is not current exactly when its
\* superseded_by is set.
C16_CurrentIffNoPointer ==
    \A i \in Ids(items) : items[i].is_current <=> items[i].superseded_by = NoId

\* An item has been superseded by an item that is current.
C16_Witness ==
    \E i \in Ids(items) :
       /\ ~items[i].is_current
       /\ items[i].superseded_by \in current_items(items)

\* C17: no operation makes an item that is not current current again, and none
\* changes its superseded_by.
C17_SupersessionTerminal ==
    [][\A i \in Ids(items) :
          ~items[i].is_current =>
             /\ ~items'[i].is_current
             /\ items'[i].superseded_by = items[i].superseded_by]_vars

\* An item was superseded, and later the item that replaced it was superseded.
C17_Witness ==
    \E i \in Ids(items) :
       /\ ~items[i].is_current
       /\ items[i].superseded_by \in Ids(items)
       /\ ~items[items[i].superseded_by].is_current

\* The item n superseded_by hops after item i, NoId when the hops end before.
RECURSIVE Follow(_, _)
Follow(i, n) ==
    IF n = 0 \/ i = NoId THEN i
    ELSE Follow(items[i].superseded_by, n - 1)

C19_PointsToCurrent ==
    \A i \in Ids(items) :
       ~items[i].is_current =>
          /\ items[i].superseded_by \in Ids(items)
          /\ items[items[i].superseded_by].is_current

(***************************************************************************)
(* Properties of the match resolver (SpecResolver).                        *)
(***************************************************************************)
\* A current item that shares a URL with the candidate and has its date.
UrlMatches(tbl, candidate) ==
    {i \in current_items(tbl) :
        /\ candidate.external_urls \cap tbl[i].external_urls # {}
        /\ candidate.date = tbl[i].date}

\* C20: when a current item shares a URL with the candidate and has an equal
\* date, the resolver returns such an item with confidence 1.0, wherever it is
\* in the scan order.
C20_UrlMatchFirst ==
    (hist.calls = 1 /\ UrlMatches(items, hist.candidate) # {}) =>
        /\ hist.found.id \in UrlMatches(items, hist.candidate)
        /\ hist.found.score = <<1, 1>>

\* Whether a stored item qualifies as a match of the candidate, by a shared URL
\* or by text; the threshold is 85/100.
SharesUrl(tbl, i, candidate) == candidate.external_urls \cap tbl[i].external_urls # {}

Similarity(tbl, i, candidate) == text_similarity(candidate.content, tbl[i].content)

AtThreshold(sim) == sim[1] * 100 >= 85 * sim[2]

Qualifies(tbl, i, candidate) ==
    /\ candidate.date = tbl[i].date
    /\ (SharesUrl(tbl, i, candidate) \/ AtThreshold(Similarity(tbl, i, candidate)))

C22_ThresholdAndConfidence ==
    hist.calls >= 1 =>
        LET tbl == hist.before.items
            found == hist.found
        IN  /\ found.id = NoId <=>
                  \A i \in current_items(tbl) : ~Qualifies(tbl, i, hist.candidate)
            /\ found.id # NoId =>
                  /\ found.id \in current_items(tbl)
                  /\ Qualifies(tbl, found.id, hist.candidate)
                  /\ IF SharesUrl(tbl, found.id, hist.candidate)
                     THEN found.score = <<1, 1>>
                     ELSE /\ found.score = Similarity(tbl, found.id, hist.candidate)
                          /\ AtThreshold(found.score)

\* The resolver returned an item whose similarity is the threshold itself.
C22_Witness ==
    /\ hist.calls = 1
    /\ hist.found.id # NoId
    /\ ~SharesUrl(items, hist.found.id, hist.candidate)
    /\ hist.found.score[1] * 100 = 85 * hist.found.score[2]

\* C23: the resolver returns the first item of the scan that qualifies, also
\* when a later item has a higher similarity, and save_item supersedes that
\* item and no other.
C23_FirstQualifyingWins ==
    hist.calls >= 1 =>
        LET tbl == hist.before.items
            hits == SelectSeq(hist.scan, LAMBDA i : Qualifies(tbl, i, hist.candidate))
        IN  /\ hist.found.id = IF hits = <<>> THEN NoId ELSE hits[1]
            /\ hist.calls = 2 =>
                  {i \in Ids(tbl) : tbl[i].is_current /\ ~items[i].is_current}
                      = {hist.found.id} \ {NoId}

\* save_item superseded the first qualifying item, of similarity 6/7, and left
\* current a later item whose text equals the candidate's.
C23_Witness ==
    /\ hist.calls = 2
    /\ hist.found.id # NoId
    /\ hist.found.score = <<6, 7>>
    /\ \E i \in current_items(items) \cap Ids(hist.before.items) :
          /\ Qualifies(items, i, hist.candidate)
          /\ items[i].content = hist.candidate.content

\* The creation time of the most recently created Email row.
NewestCreatedAt(tbl, t) ==
    /\ \E e \in Ids(tbl) : tbl[e].created_at = t
    /\ \A e \in Ids(tbl) : tbl[e].created_at <= t

\* C24: get_most_recent_email_timestamp returns none when emails is empty or
\* the query raises, and otherwise the created_at of the most recently created
\* row; the mailbox query has an 'after' bound, the timestamp, exactly when a
\* timestamp was returned.
C24_Checkpoint ==
    hist.calls = 1 =>
        /\ (emails = <<>> \/ hist.raised) => hist.timestamp = NoId
        /\ (emails # <<>> /\ ~hist.raised) => NewestCreatedAt(emails, hist.timestamp)
        /\ hist.query.bounded <=> hist.timestamp # NoId
        /\ hist.query.bounded => hist.query.after = hist.timestamp

\* Two rows created at different times: the later time was returned and the
\* query is bounded by it.
C24_Witness ==
    /\ hist.calls = 1
    /\ ~hist.raised
    /\ Len(emails) = 2
    /\ emails[1].created_at < emails[2].created_at
    /\ hist.timestamp = emails[2].created_at
    /\ hist.query.bounded

\* C24 as stated: none exactly for the empty table, the newest created_at for
\* every other table, and an 'after' bound exactly when a timestamp was returned.
C24_AsStated ==
    hist.calls = 1 =>
        /\ emails = <<>> => hist.timestamp = NoId
        /\ emails # <<>> => NewestCreatedAt(emails, hist.timestamp)
        /\ hist.query.bounded <=> hist.timestamp # NoId

\* C25: when a run starts, every message whose classification call failed in
\* the run before it, and which therefore has no Email row, is among the
\* messages the new run fetches.
C25_UnstoredFetchedAgain ==
    [][runs_started' = runs_started + 1 =>
          \A i \in 1..Len(run[1].outcomes) :
             (/\ run[1].outcomes[i] = "classification_aborted"
              /\ emails_with_gmail_id(emails, run[1].messages[i]) = {})
                => run[1].messages[i] \in Range(run'[1].messages)]_vars

\* C26: when a blob of the message already exists, the upload counts as a
\* success and the run inserts the Email row and one Attachment row per part,
\* each with the path of the blob.
C26_DuplicateUploadSucceeds ==
    (/\ hist.calls >= 1
     /\ hist.script # NULL
     /\ \E f \in Range(Mailbox[hist.gmail_id].attachments) :
           storage_path(hist.gmail_id, f) \in hist.bucket)
        => /\ ~hist.raised
           /\ \E e \in Ids(emails) :
                 /\ emails[e].gmail_id = hist.gmail_id
                 /\ \A f \in Range(Mailbox[hist.gmail_id].attachments) :
                       \E x \in Ids(attachments) :
                          /\ attachments[x].email_id = e
                          /\ attachments[x].filename = f
                          /\ attachments[x].storage_path = storage_path(hist.gmail_id, f)
                          /\ attachments[x].storage_path \in blobs

\* C27: once an attachment is linked to an item, no step changes its item_id.
C27_ItemIdSetOnce ==
    [][\A x \in Ids(attachments) :
          attachments[x].item_id # NoId =>
             attachments'[x].item_id = attachments[x].item_id]_vars

\* C28: the step of store_failed_email never ends the run: it takes the run to
\* the next message, and when an Email row of the message already exists it
\* leaves emails as it is, otherwise it adds the minimal row.
C28_StoreFailedNeverRaises ==
    [][\A r \in Runs :
          (run[r].pc = "store_failed" /\ run'[r] # run[r]) =>
             /\ run'[r] = NextMessage(run[r], "privacy_failed")
             /\ IF emails_with_gmail_id(emails, CurMsg(run[r])) # {}
                THEN emails' = emails
                ELSE emails' = Append(emails, failed_email_row(CurMsg(run[r]), now))]_vars

\* A run recorded a privacy failure for a message whose Email row, stored in
\* full by the other run, is still there.
C28_Witness ==
    \E r \in Runs : \E i \in 1..Len(run[r].outcomes) :
       /\ run[r].outcomes[i] = "privacy_failed"
       /\ \E e \in Ids(emails) :
             /\ emails[e].gmail_id = run[r].messages[i]
             /\ emails[e].body # NULL

\* The calendar date a date text stands for, and the order of calendar dates.
DateOf(date) ==
    <<year_of(date), DigitValue(date[6]) * 10 + DigitValue(date[7]),
      DigitValue(date[9]) * 10 + DigitValue(date[10])>>

Earlier(d1, d2) ==
    \/ d1[1] < d2[1]
    \/ d1[1] = d2[1] /\ d1[2] < d2[2]
    \/ d1[1] = d2[1] /\ d1[2] = d2[2] /\ d1[3] < d2[3]

\* The end of the range in the content of a row lies before its date_start.
RangeEndsBeforeStart(row) ==
    /\ row.content # NoRange
    /\ row.date_start # NoDate
    /\ Earlier(<<year_of(row.date_start), row.content.month, row.content.day>>,
               DateOf(row.date_start))

\* C29: a run of backfill_end_dates writes no date_end that is earlier than the
\* date_start of its item: an item whose range ends before its date_start is
\* left as it was, and every other item without date_end whose content has
\* a range, the items after a skipped one included, gets the end of its range.
C29_NoEndBeforeStart ==
    hist.calls = 1 =>
        /\ Len(items) = Len(hist.before.items)
        /\ \A i \in Ids(items) :
              LET old == hist.before.items[i]
                  new == items[i]
              IN  /\ new.date_start = old.date_start
                  /\ new.content = old.content
                  /\ (new.date_end # old.date_end /\ new.date_start # NoDate) =>
                        ~Earlier(DateOf(new.date_end), DateOf(new.date_start))
                  /\ (old.date_end # NoDate \/ RangeEndsBeforeStart(old)) => new = old
                  /\ (old.date_end = NoDate /\ old.content # NoRange /\ ~RangeEndsBeforeStart(old))
                        => new.date_end # NoDate

\* The first item was skipped because its range ends before its date_start,
\* and the item after it got its date_end.
C29_Witness ==
    /\ hist.calls = 1
    /\ Len(items) = 2
    /\ RangeEndsBeforeStart(hist.before.items[1])
    /\ hist.before.items[1].date_end = NoDate
    /\ items[1].date_end = NoDate
    /\ hist.before.items[2].date_end = NoDate
    /\ items[2].date_end # NoDate

\* C30: text_similarity gives the same value for two texts in either order,
\* so the two orders agree on whether the texts match.
C30_SimilaritySymmetric ==
    hist.calls = 1 =>
        /\ hist.scores[1][1] * hist.scores[2][2] = hist.scores[2][1] * hist.scores[1][2]
        /\ AtThreshold(hist.scores[1]) <=> AtThreshold(hist.scores[2])

\* C31: in supersede_item the old item is marked (not current, superseded by
\* the new item) before the query for its user_items rows and before every
\* insert of a migrated row.
C31_MarkedBeforeMigration ==
    [][\A r \in Runs :
          /\ run[r].pc \in {"supersede_select", "migrate"} =>
                /\ ~items[run[r].similar_id].is_current
                /\ items[run[r].similar_id].superseded_by = run[r].new_item_id
          /\ (run[r].pc = "migrate" /\ user_items' # user_items) =>
                ~items'[run[r].similar_id].is_current]_vars

\* The first row of the old item has been migrated to the new item and the
\* second is still to come.
C31_Witness ==
    \E r \in Runs :
       /\ run[r].pc = "migrate"
       /\ run[r].u = 2
       /\ \E x \in Ids(user_items) : user_items[x].item_id = run[r].new_item_id
       /\ ~items[run[r].similar_id].is_current

\* C32: for each extracted item the resolver runs before the Item row is
\* inserted: at the resolver's scan the message has one Item row per item
\* before this one, the row is inserted next, as current, and supersession
\* names that row as the replacement.
C32_ResolveThenInsert ==
    \A r \in Runs :
       /\ run[r].pc \in {"find_similar", "insert_item"} =>
             Cardinality(ItemsOfEmail(run[r].email_id)) = run[r].j - 1
       /\ run[r].pc = "supersede_update" =>
             /\ Cardinality(ItemsOfEmail(run[r].email_id)) = run[r].j
             /\ run[r].new_item_id = Len(items)
             /\ items[run[r].new_item_id].email_id = run[r].email_id
             /\ items[run[r].new_item_id].content = run[r].result.items[run[r].j].content
             /\ items[run[r].new_item_id].is_current
             /\ run[r].similar_id \in Ids(items) \ {run[r].new_item_id}
       /\ run[r].pc \in {"supersede_select", "migrate"} =>
             items[run[r].similar_id].superseded_by = run[r].new_item_id
       /\ run[r].pc = "link" =>
             /\ Cardinality(ItemsOfEmail(run[r].email_id)) = run[r].j
             /\ items[run[r].new_item_id].email_id = run[r].email_id
             /\ items[run[r].new_item_id].is_current

\* The resolver found a match for the second item of a message, whose row is
\* inserted and about to replace the match.
C32_Witness ==
    \E r \in Runs :
       /\ run[r].pc = "supersede_update"
       /\ run[r].j = 2
       /\ items[run[r].similar_id].is_current

\* C32 as stated: the Item row of an extracted item is already inserted when
\* the resolver scans the current items for it.
C32_InsertThenResolve ==
    \A r \in Runs :
       run[r].pc = "find_similar" =>
          Cardinality(ItemsOfEmail(run[r].email_id)) = run[r].j

\* C33: the resolver returns only an item that is current when it scans, and
\* save_item changes no item that was superseded before the call: such an item
\* is never the old item of supersede_item.
C33_OnlyCurrentReturned ==
    hist.calls >= 1 =>
        /\ \A k \in 1..Len(hist.scan) : hist.before.items[hist.scan[k]].is_current
        /\ hist.found.id # NoId => hist.before.items[hist.found.id].is_current
        /\ hist.calls = 2 =>
              \A i \in Ids(hist.before.items) :
                 ~hist.before.items[i].is_current => items[i] = hist.before.items[i]

\* A superseded item has the candidate's date and text; the resolver found no
\* match and save_item left the item as it was.
C33_Witness ==
    /\ hist.calls = 2
    /\ hist.found.id = NoId
    /\ \E i \in Ids(hist.before.items) :
          /\ ~hist.before.items[i].is_current
          /\ hist.before.items[i].date = hist.candidate.date
          /\ hist.before.items[i].content = hist.candidate.content
          /\ items[i] = hist.before.items[i]

\* C34: the storage_path of every Attachment row names a stored blob, and when
\* the Email row and the Attachment rows of a message are inserted every
\* attachment of the message has been uploaded.
C34_AttachmentBlobsExist ==
    /\ \A a \in Ids(attachments) : attachments[a].storage_path \in blobs
    /\ \A r \in Runs :
          run[r].pc \in {"store_email", "store_attachment"} =>
             \A k \in 1..Len(Mailbox[CurMsg(run[r])].attachments) :
                storage_path(CurMsg(run[r]), Mailbox[CurMsg(run[r])].attachments[k]) \in blobs

\* The second Attachment row of a message is about to be inserted.
C34_Witness ==
    \E r \in Runs :
       /\ run[r].pc = "store_attachment"
       /\ run[r].k = 2
       /\ attachments # <<>>
       /\ attachments[Len(attachments)].email_id = run[r].email_id

\* C35: an attachment is linked to an item only by the item loop of the
\* message the attachment belongs to, only to the item just inserted for that
\* message, and only when its filename is one of the item's
\* attachment_filenames; a linked attachment and its item have the same Email.
C35_LinkOnlyOwnNamedAttachments ==
    [][/\ \A a \in Ids(attachments) :
             attachments'[a].item_id # attachments[a].item_id =>
                \E r \in Runs :
                   /\ run[r].pc = "link"
                   /\ attachments'[a].item_id = run[r].new_item_id
                   /\ attachments[a].email_id = run[r].email_id
                   /\ items[run[r].new_item_id].email_id = run[r].email_id
                   /\ items[run[r].new_item_id].content =
                          run[r].result.items[run[r].j].content
                   /\ attachments[a].filename \in
                          Range(run[r].result.items[run[r].j].attachment_filenames)
       /\ \A a \in Ids(attachments') :
             attachments'[a].item_id # NoId =>
                items'[attachments'[a].item_id].email_id = attachments'[a].email_id
      ]_vars

\* After the item loop of a message one of its attachments is linked and
\* another, which no item names, is not.
C35_Witness ==
    \E a, b \in Ids(attachments) :
       /\ attachments[a].email_id = attachments[b].email_id
       /\ attachments[a].item_id # NoId
       /\ attachments[b].item_id = NoId
       /\ attachments[a].filename # attachments[b].filename
       /\ run[1].pc = "idle"

\* Properties of the batch dedup passes (SpecDedup).
\* The members of the groups of a pass.
Grouped(groups) == UNION {Range(groups[g]) : g \in 1..Len(groups)}

\* The member of a group that was created last.
Latest(group) == CHOOSE x \in Range(group) : \A y \in Range(group) : y <= x

C37_SecondPassSupersedesNothing ==
    (hist.script = "dedup_existing_items" /\ hist.calls >= 1) =>
        /\ hist.calls = 2 => items = hist.before.items
        /\ \A i, j \in current_items(items) :
              (i # j /\ items[i].date = items[j].date) =>
                 ~RatioGE(similarity(normalize_content(items[i].content),
                                     normalize_content(items[j].content)),
                          SIMILARITY_THRESHOLD)

\* C38: no step of supersede_item changes an Attachment row: an attachment
\* linked to the old item stays linked to it.
C38_SupersedeKeepsAttachments ==
    [][\A r \in Runs :
          run[r].pc \in {"supersede_update", "supersede_select", "migrate"} =>
             /\ attachments' = attachments
             /\ \A a \in Ids(attachments) :
                   attachments[a].item_id = run[r].similar_id =>
                      attachments'[a].item_id = run[r].similar_id
      ]_vars

\* An attachment is linked to an item that has been superseded.
C38_Witness ==
    \E a \in Ids(attachments) :
       /\ attachments[a].item_id # NoId
       /\ ~items[attachments[a].item_id].is_current
       /\ items[attachments[a].item_id].superseded_by # NoId

\* C39: once a later run has fetched again a message whose run was
\* interrupted between the insert of its Email row and the end of its item
\* loop, the Email row eventually has an Item row for each item the
\* classification returned for the message.
C39_InterruptedEmailGetsItems ==
    (/\ hist.calls = 1
     /\ run[1].pc = "check"
     /\ CurMsg(run[1]) = hist.gmail_id)
        ~> (Cardinality(ItemsOfEmail(hist.new)) = Len(hist.texts))

\* The ways in which a run leaves a message.
Outcomes == {"already_stored", "classification_aborted", "privacy_failed", "items_extracted"}

\* C40: when every external call returns, a run that has started returns, and
\* it leaves each fetched message with exactly one outcome, one message at a
\* time in the order of the list.
C40_RunTerminates ==
    /\ [](/\ Len(run[1].outcomes) <= Len(run[1].messages)
          /\ \A i \in 1..Len(run[1].outcomes) : run[1].outcomes[i] \in Outcomes
          /\ run[1].pc # "idle" => run[1].idx = Len(run[1].outcomes) + 1
          /\ run[1].pc = "idle" => Len(run[1].outcomes) = Len(run[1].messages))
    /\ [][run[1].pc # "idle" =>
             \/ run'[1].outcomes = run[1].outcomes /\ run'[1].messages = run[1].messages
             \/ \E o \in Outcomes : run'[1] = NextMessage(run[1], o)]_vars
    /\ (run[1].pc # "idle") ~> (run[1].pc = "idle")

\* A run has returned from a list of two messages that ended in different ways.
C40_Witness ==
    /\ run[1].pc = "idle"
    /\ Len(run[1].messages) = 2
    /\ Len(run[1].outcomes) = 2
    /\ run[1].outcomes[1] # run[1].outcomes[2]

====
